---- MODULE Spec2Model ----
(***************************************************************************)
(* The rent reconciliation engine of rent3 (src/rent_checker.py) with the  *)
(* tables it reads and writes (src/models.py) and the mail dispatch it     *)
(* calls (src/email_service.py).                                           *)
(*                                                                         *)
(* Text is a sequence of one-character strings, a date is the number of    *)
(* days since Monday 2024-01-01, money is an integer number of cents, and  *)
(* an optional column is a sequence of length 0 (NULL) or 1.               *)
(***************************************************************************)
EXTENDS Integers, Sequences, FiniteSets, TLC

(* ------------------------------ bounds --------------------------------- *)

\* Driver invocations (scheduled or diagnostic) in one behaviour.
MaxRuns == 2

\* Midnights that pass in one behaviour.
MaxTicks == 1

\* The last date the Due-Date Evaluator is applied to: 2025-03-31, so that
\* the dates hold a February of 29 days and one of 28.
MaxDate == 455

\* Rows of password_reset_tokens in one behaviour.
MaxTokens == 2

\* How far the clock of the password resets runs, in units of 12 hours.
MaxClock == 3

(* ------------------------------- text ---------------------------------- *)

UpperCase == <<"A","B","C","D","E","F","G","H","I","J","K","L","M",
               "N","O","P","Q","R","S","T","U","V","W","X","Y","Z">>

LowerCase == <<"a","b","c","d","e","f","g","h","i","j","k","l","m",
               "n","o","p","q","r","s","t","u","v","w","x","y","z">>

\* str.lower() on one character.
lower_char(c) ==
    IF \E i \in 1..Len(UpperCase) : UpperCase[i] = c
    THEN LowerCase[CHOOSE i \in 1..Len(UpperCase) : UpperCase[i] = c]
    ELSE c

\* str.lower()
lower(s) == [i \in 1..Len(s) |-> lower_char(s[i])]

\* Python's `needle in hay` on strings.
contains(needle, hay) ==
    \E i \in 0..(Len(hay) - Len(needle)) :
        \A j \in 1..Len(needle) : hay[i + j] = needle[j]

(* ----------------------------- calendar -------------------------------- *)

\* Days of the months of 2024 and 2025, the years the modelled dates lie in.
MonthDays == <<31, 29, 31, 30, 31, 30, 31, 31, 30, 31, 30, 31,
               31, 28, 31, 30, 31, 30, 31, 31, 30, 31, 30, 31>>

RECURSIVE day_in(_, _)
day_in(n, m) == IF n < MonthDays[m] THEN n + 1 ELSE day_in(n - MonthDays[m], m + 1)

\* date.day: the day of the month of date d.
day(d) == day_in(d, 1)

\* date.weekday(): 0 = Monday .. 6 = Sunday; day 0 is a Monday.
weekday(d) == d % 7

RECURSIVE month_length_in(_, _)
month_length_in(n, m) ==
    IF n < MonthDays[m] THEN MonthDays[m] ELSE month_length_in(n - MonthDays[m], m + 1)

\* The number of days of the month date d lies in.
month_length(d) == month_length_in(d, 1)

\* date.today() when the behaviour starts: Monday 2024-01-15, so that the
\* first check date is Sunday 2024-01-14.
FirstToday == 7 + 7

(* ------------------------------ optional ------------------------------- *)

None == <<>>
Some(x) == <<x>>

\* abs()
abs(x) == IF x < 0 THEN -x ELSE x

(* ------------------------------- tables -------------------------------- *)

\* users.id
Users == {1, 2}

\* properties.id
PropertyIds == {1, 2}

\* users.email, properties.tenant_email: who a message is addressed to.
UserEmail(u) == [kind |-> "user", id |-> u]
TenantEmail(p) == [kind |-> "tenant", id |-> p]

RentKeyword == <<"R","E","N","T">>

\* The due-day settings a property is given, each with exactly one due-day
\* column set. Of the dates checked, Sunday 2024-01-14 is due for the
\* Fortnightly and the Monthly one, Monday 2024-01-15 for the Weekly one.
Weekly_Monday ==
    [rent_frequency |-> "Weekly", rent_due_day_of_week |-> Some(0), rent_due_day |-> None]
Fortnightly_Sunday ==
    [rent_frequency |-> "Fortnightly", rent_due_day_of_week |-> Some(6), rent_due_day |-> None]
Monthly_14th ==
    [rent_frequency |-> "Monthly", rent_due_day_of_week |-> None, rent_due_day |-> Some(14)]

\* The settings of the two properties: every frequency on either property,
\* due on the same date or on different dates.
Schedules ==
    { << Weekly_Monday, Monthly_14th >>,
      << Fortnightly_Sunday, Weekly_Monday >>,
      << Monthly_14th, Fortnightly_Sunday >>,
      << Monthly_14th, Monthly_14th >> }

\* send_tenant_reminder of the two properties.
Reminders == { << TRUE, FALSE >>, << FALSE, TRUE >>, << TRUE, TRUE >> }

\* The landlords: who owns which property and who has stored credentials.
\* One landlord with credentials owns both properties; or each landlord owns
\* one, and the second has credentials or has none.
Landlords ==
    { [owner |-> [p \in PropertyIds |-> 1], akahu_credentials |-> {1}],
      [owner |-> [p \in PropertyIds |-> p], akahu_credentials |-> {1, 2}],
      [owner |-> [p \in PropertyIds |-> p], akahu_credentials |-> {1}] }

\* A row of properties.
Property(p, u, s, reminder) ==
    [ id                   |-> p,
      user_id              |-> u,
      tenant_email         |-> TenantEmail(p),
      rent_amount          |-> 80000,
      rent_frequency       |-> s.rent_frequency,
      rent_due_day_of_week |-> s.rent_due_day_of_week,
      rent_due_day         |-> s.rent_due_day,
      bank_statement_keyword |-> RentKeyword,
      send_tenant_reminder |-> reminder ]

\* The row with payment_keyword_match left at its default.
RentCheck_keyword_default(id, property_id, check_date, rent_payment, rent_amount) ==
    [ id                       |-> id,
      property_id              |-> property_id,
      check_date               |-> check_date,
      rent_due_date            |-> check_date,
      payment_found            |-> rent_payment # None,
      payment_amount           |-> IF rent_payment # None
                                   THEN Some(abs(rent_payment[1].amount)) ELSE None,
      payment_keyword_match    |-> FALSE,
      amount_matches           |-> IF rent_payment # None
                                   THEN abs(rent_payment[1].amount) = rent_amount ELSE FALSE,
      notification_sent        |-> FALSE,
      tenant_notification_sent |-> FALSE ]

\* The row with the signed amount compared to the rent.
RentCheck_signed(id, property_id, check_date, rent_payment, rent_amount) ==
    [ id                       |-> id,
      property_id              |-> property_id,
      check_date               |-> check_date,
      rent_due_date            |-> check_date,
      payment_found            |-> rent_payment # None,
      payment_amount           |-> IF rent_payment # None
                                   THEN Some(abs(rent_payment[1].amount)) ELSE None,
      payment_keyword_match    |-> rent_payment # None,
      amount_matches           |-> IF rent_payment # None
                                   THEN rent_payment[1].amount = rent_amount ELSE FALSE,
      notification_sent        |-> FALSE,
      tenant_notification_sent |-> FALSE ]

\* A row of rent_checks as check_property_rent_payment builds it; the
\* columns it does not set take their defaults.
RentCheck(id, property_id, check_date, rent_payment, rent_amount) ==
    [ id                       |-> id,
      property_id              |-> property_id,
      check_date               |-> check_date,
      rent_due_date            |-> check_date,
      payment_found            |-> rent_payment # None,
      payment_amount           |-> IF rent_payment # None
                                   THEN Some(abs(rent_payment[1].amount)) ELSE None,
      payment_keyword_match    |-> rent_payment # None,
      amount_matches           |-> IF rent_payment # None
                                   THEN abs(rent_payment[1].amount) = rent_amount ELSE FALSE,
      notification_sent        |-> FALSE,
      tenant_notification_sent |-> FALSE ]

\* A row of email_logs.
EmailLog(recipient_email, email_type, sent_successfully, error_message) ==
    [ recipient_email   |-> recipient_email,
      email_type        |-> email_type,
      sent_successfully |-> sent_successfully,
      error_message     |-> error_message ]

\* The tokens a landlord may submit on the credentials form.
Tokens == {"token_a", "token_b"}

\* A row of akahu_credentials.
AkahuCredentials(id, user_id, app_token, user_token) ==
    [ id |-> id, user_id |-> user_id, app_token |-> app_token,
      user_token |-> user_token ]

\* The id a table gives its next row.
next_id(rows) ==
    IF rows = <<>> THEN 1
    ELSE 1 + (CHOOSE m \in {rows[i].id : i \in 1..Len(rows)} :
                 \A i \in 1..Len(rows) : rows[i].id <= m)

(* --------------------------- the aggregator ---------------------------- *)

Desc_rent == <<"w","e","e","k","l","y"," ","r","e","n","t"," ","p","a","y","m","e","n","t">>
Desc_other == <<"G","r","o","c","e","r","i","e","s">>

Tx(description, amount) == [description |-> description, amount |-> amount]

\* The item lists a 200 answer of GET /transactions may carry.
TxLists ==
    { <<>>,
      << Tx(Desc_other, -80000) >>,
      << Tx(Desc_rent, 80000) >>,
      << Tx(Desc_other, -1200), Tx(Desc_rent, -80000) >>,
      << Tx(Desc_rent, 75000), Tx(Desc_rent, 80000) >> }

\* What requests.get can do: answer 200 with items, answer another status,
\* or raise (no answer at all).
Responses ==
    { [raises |-> FALSE, status_code |-> 200, items |-> t] : t \in TxLists }
        \cup { [raises |-> FALSE, status_code |-> 500, items |-> <<>>],
               [raises |-> TRUE,  status_code |-> 500, items |-> <<>>] }

(* ---------------------------- mail dispatch ---------------------------- *)

\* How the process is configured for mail (EMAIL_SENDER, EMAIL_PASSWORD,
\* FLASK_ENV): sender credentials set, or not set in a development
\* environment, or not set elsewhere.
MailConfigs == {"smtp", "unconfigured_dev", "unconfigured"}

\* What one send_email call can meet under a configuration: with sender
\* credentials the SMTP exchange succeeds or raises.
MailEnvs(config) == IF config = "smtp" THEN {"sent", "smtp_error"} ELSE {config}

\* send_email: the boolean it returns and the email_logs row it adds, if any.
send_email(recipient_email, email_type, env) ==
    CASE env = "unconfigured_dev" ->
            [ok |-> TRUE, log |-> Some(EmailLog(recipient_email, email_type, TRUE, None))]
      [] env = "unconfigured" ->
            [ok |-> FALSE, log |-> None]
      [] env = "sent" ->
            [ok |-> TRUE, log |-> Some(EmailLog(recipient_email, email_type, TRUE, None))]
      [] OTHER ->
            [ok |-> FALSE, log |-> Some(EmailLog(recipient_email, email_type, FALSE, Some(env)))]

(* ------------------------- the engine's functions ---------------------- *)

\* The Fortnightly rule without the day-of-month test.
is_rent_due_every_week(property, check_date) ==
    CASE property.rent_frequency \in {"Weekly", "Fortnightly"} ->
            Some(weekday(check_date)) = property.rent_due_day_of_week
      [] property.rent_frequency = "Monthly" ->
            Some(day(check_date)) = property.rent_due_day
      [] OTHER -> FALSE

\* The Monthly rule with the due day clamped to the length of the month.
is_rent_due_clamped(property, check_date) ==
    CASE property.rent_frequency = "Weekly" ->
            Some(weekday(check_date)) = property.rent_due_day_of_week
      [] property.rent_frequency = "Fortnightly" ->
            /\ Some(weekday(check_date)) = property.rent_due_day_of_week
            /\ day(check_date) % 14 = 0
      [] property.rent_frequency = "Monthly" ->
            \/ Some(day(check_date)) = property.rent_due_day
            \/ /\ day(check_date) = month_length(check_date)
               /\ property.rent_due_day # None
               /\ property.rent_due_day[1] > month_length(check_date)
      [] OTHER -> FALSE

\* The Weekly rule with date.isoweekday() (1 = Monday .. 7 = Sunday).
is_rent_due_isoweekday(property, check_date) ==
    CASE property.rent_frequency = "Weekly" ->
            Some(weekday(check_date) + 1) = property.rent_due_day_of_week
      [] property.rent_frequency = "Fortnightly" ->
            /\ Some(weekday(check_date)) = property.rent_due_day_of_week
            /\ day(check_date) % 14 = 0
      [] property.rent_frequency = "Monthly" ->
            Some(day(check_date)) = property.rent_due_day
      [] OTHER -> FALSE

\* RentChecker.is_rent_due
is_rent_due(property, check_date) ==
    CASE property.rent_frequency = "Weekly" ->
            Some(weekday(check_date)) = property.rent_due_day_of_week
      [] property.rent_frequency = "Fortnightly" ->
            /\ Some(weekday(check_date)) = property.rent_due_day_of_week
            /\ day(check_date) % 14 = 0
      [] property.rent_frequency = "Monthly" ->
            Some(day(check_date)) = property.rent_due_day
      [] OTHER -> FALSE

\* The scan comparing keyword and description as they are written.
RECURSIVE find_rent_payment_case_sensitive(_, _)
find_rent_payment_case_sensitive(transactions, property) ==
    IF transactions = <<>> THEN None
    ELSE IF contains(property.bank_statement_keyword, Head(transactions).description)
         THEN Some(Head(transactions))
         ELSE find_rent_payment_case_sensitive(Tail(transactions), property)

\* The scan that keeps, among the transactions holding the keyword, the
\* last one unless an earlier one has the expected amount.
RECURSIVE find_rent_payment_by_amount(_, _)
find_rent_payment_by_amount(transactions, property) ==
    IF transactions = <<>> THEN None
    ELSE LET later == find_rent_payment_by_amount(Tail(transactions), property) IN
         IF contains(lower(property.bank_statement_keyword),
                     lower(Head(transactions).description))
            /\ (abs(Head(transactions).amount) = property.rent_amount \/ later = None)
         THEN Some(Head(transactions))
         ELSE later

\* RentChecker.find_rent_payment: the first transaction whose description
\* holds the keyword, or None.
RECURSIVE find_rent_payment(_, _)
find_rent_payment(transactions, property) ==
    IF transactions = <<>> THEN None
    ELSE IF contains(lower(property.bank_statement_keyword),
                     lower(Head(transactions).description))
         THEN Some(Head(transactions))
         ELSE find_rent_payment(Tail(transactions), property)

\* RentChecker.get_bank_transactions, given what requests.get does.
\* The items of whatever answer came, whatever its status.
get_bank_transactions_any_status(response) ==
    IF response.raises THEN <<>> ELSE response.items

\* get_bank_transactions, given what requests.get did: the items of a 200
\* answer, and the empty list for any other answer and for any exception.
get_bank_transactions(response) ==
    IF response.raises THEN <<>>
    ELSE IF response.status_code = 200 THEN response.items
    ELSE <<>>

\* The query with the date of the run in place of the date checked.
existing_check_run_date(rows, property_id, check_date) ==
    { i \in 1..Len(rows) :
        rows[i].property_id = property_id /\ rows[i].check_date = check_date + 1 }

\* The query with the row id in place of the property id.
existing_check_by_id(rows, property_id, check_date) ==
    { i \in 1..Len(rows) :
        rows[i].id = property_id /\ rows[i].check_date = check_date }

\* RentCheck.query.filter_by(property_id=..., check_date=...): the rows found.
existing_check(rows, property_id, check_date) ==
    { i \in 1..Len(rows) :
        rows[i].property_id = property_id /\ rows[i].check_date = check_date }

\* The landlord message picked without looking at amount_matches.
landlord_email_type_any_amount(rent_check) ==
    IF rent_check.payment_found THEN "rent_received" ELSE "rent_missed"

\* The landlord message send_notifications picks for a rent_checks row.
landlord_email_type(rent_check) ==
    IF rent_check.payment_found
    THEN IF rent_check.amount_matches THEN "rent_received" ELSE "rent_amount_mismatch"
    ELSE "rent_missed"

\* The reminder sent whatever the outcome of the check.
tenant_reminder_due_any_outcome(rent_check, property) ==
    property.send_tenant_reminder

\* The reminder sent whatever the property's setting.
tenant_reminder_due_any_setting(rent_check, property) ==
    ~rent_check.payment_found

\* Whether send_notifications goes on to send_tenant_reminder_email.
tenant_reminder_due(rent_check, property) ==
    ~rent_check.payment_found /\ property.send_tenant_reminder

\* A set of ids in ascending order, as a query returns its rows.
RECURSIVE ordered(_)
ordered(S) ==
    IF S = {} THEN <<>>
    ELSE LET m == CHOOSE x \in S : \A y \in S : x <= y
         IN <<m>> \o ordered(S \ {m})

(* -------------------------------- state -------------------------------- *)

VARIABLES
    today,              \* date.today()
    mail_config,        \* the mail settings in the process environment
    akahu_credentials,  \* the akahu_credentials table, in insertion order
    properties,         \* the properties table, by id
    rent_checks,        \* the rent_checks table, in insertion order
    email_logs,         \* the email_logs table, in insertion order
    outbox,             \* every send_*_notification / reminder call made
    api_calls,          \* every GET /transactions made
    run,                \* the Driver invocations in progress, by process
    runs_started,       \* how many invocations were started
    completed,          \* the invocation that returned last, whether it
                        \* repeated the one before it, and the invocation
                        \* an exception ended last
    skipped,            \* the (property, date) pairs a run found already checked
    raised,             \* the exceptions raised from outside the engine's own
                        \* code while a property was checked
    submitted,          \* the tokens each user posted last to akahu_setup
    users,              \* the users table, by id
    password_reset_tokens,  \* the password_reset_tokens table, in insertion order
    utcnow,             \* datetime.utcnow(), in units of ClockUnit hours
    activated,          \* the users whose subscription was active at some time
    resets              \* every password change reset_password made

vars == << today, mail_config, akahu_credentials, properties, rent_checks,
           email_logs, outbox, api_calls, run, runs_started, completed, skipped,
           raised, submitted, users, password_reset_tokens, utcnow, activated,
           resets >>

\* The accounts of the landlords: what the account and billing handlers
\* keep.
accounts == << users, password_reset_tokens, utcnow, activated, resets >>

\* What the engine only reads, and what it knows nothing of.
settings == << today, mail_config, akahu_credentials, properties, submitted,
               accounts >>

\* User.query.join(AkahuCredentials): the users that have an
\* akahu_credentials row.
users_with_credentials ==
    { akahu_credentials[i].user_id : i \in 1..Len(akahu_credentials) }

\* The akahu_credentials table in which each of the users S stored tokens,
\* and what they posted for it.
stored_by(S) ==
    [i \in 1..Cardinality(S) |->
        AkahuCredentials(i, ordered(S)[i], "token_a", "token_a")]

posted_by(S) ==
    [u \in Users |-> IF u \in S
                     THEN Some([app_token |-> "token_a", user_token |-> "token_a"])
                     ELSE None]

\* generate_password_hash: salted, and checked against the password alone.
generate_password_hash(password) == [method |-> "pbkdf2", password |-> password]

\* A row of users, as far as the handlers modelled read or write it.
User(id, password, subscription_active) ==
    [ password_hash       |-> generate_password_hash(password),
      subscription_active |-> subscription_active,
      subscription_id     |-> IF subscription_active THEN Some(id) ELSE None ]

\* The landlords that have subscribed when the deployment is first looked
\* at: the first has, the second has not.
Subscribers == {1}

\* The accounts after registration, the landlords S subscribed: no reset
\* was asked for, the clock stands at 0.
Registered(S) ==
    /\ users = [u \in Users |-> User(u, "password_0", u \in S)]
    /\ password_reset_tokens = <<>>
    /\ utcnow = 0
    /\ activated = S
    /\ resets = <<>>

\* The processes that may run the Driver: the scheduler's job and a
\* diagnostic caller.
Runners == {1, 2}

\* A process that is not running the Driver.
Idle ==
    [ pc          |-> "idle",
      entry       |-> "none",   \* check_all_rent_payments or run_rent_check_for_user
      arg_user    |-> 0,        \* the user_id run_rent_check_for_user was given
      check_date  |-> 0,
      users       |-> <<>>,     \* the users still to check
      user        |-> 0,
      props       |-> <<>>,     \* the properties of user still to check
      property    |-> 0,
      transactions |-> <<>>,
      rent_check  |-> 0,        \* the id of the row just inserted
      session     |-> "active", \* db.session of the invocation: "active", or
                                \* "failed" once a commit of it has raised
      notification_sent        |-> FALSE,  \* set on the object, not yet committed
      tenant_notification_sent |-> FALSE ]

Init ==
    /\ today = FirstToday
    /\ mail_config \in MailConfigs
    /\ \E l \in Landlords, s \in Schedules, reminder \in Reminders :
          /\ akahu_credentials = stored_by(l.akahu_credentials)
          /\ submitted = posted_by(l.akahu_credentials)
          /\ properties = [p \in PropertyIds |->
                              Property(p, l.owner[p], s[p], reminder[p])]
    /\ rent_checks = <<>>
    /\ email_logs = <<>>
    /\ outbox = <<>>
    /\ api_calls = <<>>
    /\ run = [r \in Runners |-> Idle]
    /\ runs_started = 0
    /\ completed = [last |-> None, again |-> FALSE, error |-> None]
    /\ skipped = {}
    /\ raised = {}
    /\ Registered(Subscribers)

(* ------------------------------- helpers ------------------------------- *)

\* db.session.commit(): the flags set on the process's rent_check object
\* reach its row.
flushed(rows, me) ==
    [i \in 1..Len(rows) |->
        IF rows[i].id = me.rent_check
        THEN [rows[i] EXCEPT
                !.notification_sent = @ \/ me.notification_sent,
                !.tenant_notification_sent = @ \/ me.tenant_notification_sent]
        ELSE rows[i]]

\* The row a process holds as rent_check.
row_of(rows, id) == rows[CHOOSE i \in 1..Len(rows) : rows[i].id = id]

\* The amounts send_notifications passes to the landlord message it picks.
landlord_amounts(email_type, rent_check, property) ==
    CASE email_type = "rent_received" ->
            [expected |-> None, actual |-> rent_check.payment_amount]
      [] email_type = "rent_amount_mismatch" ->
            [expected |-> Some(property.rent_amount), actual |-> rent_check.payment_amount]
      [] OTHER ->
            [expected |-> Some(property.rent_amount), actual |-> None]

\* A call of one of the send_* functions of email_service, as made for a
\* property and a date, with the boolean it returned.
Dispatch(recipient_email, email_type, amounts, property_id, check_date, ok) ==
    [ recipient_email |-> recipient_email,
      email_type      |-> email_type,
      amounts         |-> amounts,
      property_id     |-> property_id,
      check_date      |-> check_date,
      ok              |-> ok ]

\* notification_sent set only when the message went out.
landlord_notification_sent_if_ok(ok) == ok

\* What send_notifications sets notification_sent to once the landlord
\* message was attempted and returned ok.
landlord_notification_sent(ok) == TRUE

\* The arguments a run was invoked with: the entry point, the landlord (for
\* run_rent_check_for_user) and the date checked.
Invocation(me) ==
    [ entry |-> me.entry, user_id |-> me.arg_user, check_date |-> me.check_date ]

(* ------------------------------- actions ------------------------------- *)

\* Midnight passes. A run reads date.today() once, when it starts, so a
\* midnight during a run acts as one before the next run starts.
Tick ==
    /\ today < FirstToday + MaxTicks
    /\ \A r \in Runners : run[r].pc = "idle"
    /\ today' = today + 1
    /\ UNCHANGED << mail_config, akahu_credentials, properties, rent_checks,
                    email_logs, outbox, api_calls, run, runs_started,
                    completed, skipped, raised, submitted, accounts >>

\* The run that checks the day it runs on.
StartAll_today(r) ==
    /\ run[r].pc = "idle"
    /\ runs_started < MaxRuns
    /\ runs_started' = runs_started + 1
    /\ run' = [run EXCEPT ![r] =
                  [Idle EXCEPT !.pc = "next", !.entry = "all",
                               !.check_date = today,
                               !.users = ordered(users_with_credentials)]]
    /\ UNCHANGED << settings, raised, rent_checks, email_logs, outbox, api_calls,
                    completed, skipped >>

\* run_daily_rent_check -> check_all_rent_payments, up to its loop.
StartAll(r) ==
    /\ run[r].pc = "idle"
    /\ runs_started < MaxRuns
    /\ runs_started' = runs_started + 1
    /\ run' = [run EXCEPT ![r] =
                  [Idle EXCEPT !.pc = "next", !.entry = "all",
                               !.check_date = today - 1,
                               !.users = ordered(users_with_credentials)]]
    /\ UNCHANGED << settings, raised, rent_checks, email_logs, outbox, api_calls,
                    completed, skipped >>

\* run_rent_check_for_user(user_id, check_date), up to the loop of
\* check_user_rent_payments; date is None or a date. For a user_id that is
\* no user's it returns at once, and nothing has changed.
StartUser(r, user_id, date) ==
    /\ run[r].pc = "idle"
    /\ runs_started < MaxRuns
    /\ \/ /\ user_id \in Users
          /\ runs_started' = runs_started + 1
          /\ run' = [run EXCEPT ![r] =
                        [Idle EXCEPT !.pc = "next", !.entry = "user",
                                     !.check_date = IF date = None THEN today - 1
                                                    ELSE date[1],
                                     !.arg_user = user_id,
                                     !.users = <<user_id>>]]
       \/ /\ user_id \notin Users
          /\ UNCHANGED << run, runs_started >>
    /\ UNCHANGED << settings, raised, rent_checks, email_logs, outbox, api_calls,
                    completed, skipped >>

\* The loops of check_all_rent_payments and check_user_rent_payments move
\* on: to the next user's properties, or the run returns.
NextUser(r) ==
    /\ run[r].pc = "next"
    /\ run[r].props = <<>>
    /\ \/ /\ run[r].users # <<>>
          /\ LET u == Head(run[r].users) IN
             run' = [run EXCEPT
                        ![r].user = u,
                        ![r].users = Tail(@),
                        ![r].props = ordered({p \in DOMAIN properties : properties[p].user_id = u})]
          /\ UNCHANGED completed
       \/ /\ run[r].users = <<>>
          /\ run' = [run EXCEPT ![r] = Idle]
          /\ completed' = [last |-> Some(Invocation(run[r])),
                           again |-> completed.last = Some(Invocation(run[r])),
                           error |-> completed.error]
    /\ UNCHANGED << settings, raised, rent_checks, email_logs, outbox, api_calls,
                    runs_started, skipped >>

\* The loop without the is_rent_due test.
CheckDue_always(r) ==
    /\ run[r].pc = "next"
    /\ run[r].props # <<>>
    /\ run' = [run EXCEPT ![r].property = Head(run[r].props), ![r].props = Tail(@),
                          ![r].pc = "lookup"]
    /\ UNCHANGED << settings, raised, rent_checks, email_logs, outbox, api_calls,
                    runs_started, completed, skipped >>

\* check_user_rent_payments: the next property, and whether rent is due.
CheckDue(r) ==
    /\ run[r].pc = "next"
    /\ run[r].props # <<>>
    /\ LET p == Head(run[r].props) IN
       \/ /\ is_rent_due(properties[p], run[r].check_date)
          /\ run' = [run EXCEPT ![r].property = p, ![r].props = Tail(@),
                                ![r].pc = "lookup"]
       \/ /\ ~is_rent_due(properties[p], run[r].check_date)
          /\ run' = [run EXCEPT ![r].property = p, ![r].props = Tail(@)]
    /\ UNCHANGED << settings, raised, rent_checks, email_logs, outbox, api_calls,
                    runs_started, completed, skipped >>

\* The query for an existing check without the return: the check goes on.
Lookup_no_return(r) ==
    /\ run[r].pc = "lookup"
    /\ run' = [run EXCEPT ![r].pc = "fetch"]
    /\ skipped' = IF existing_check(rent_checks, run[r].property, run[r].check_date) # {}
                  THEN skipped \cup {<<run[r].property, run[r].check_date>>}
                  ELSE skipped
    /\ UNCHANGED << settings, raised, rent_checks, email_logs, outbox, api_calls,
                    runs_started, completed >>

\* The existing check notified again instead of the return.
Lookup_renotify(r) ==
    /\ run[r].pc = "lookup"
    /\ LET found == existing_check(rent_checks, run[r].property, run[r].check_date) IN
       \/ /\ found # {}
          /\ run' = [run EXCEPT ![r].pc = "landlord",
                                ![r].rent_check = rent_checks[CHOOSE i \in found : TRUE].id]
          /\ skipped' = skipped \cup {<<run[r].property, run[r].check_date>>}
       \/ /\ found = {}
          /\ run' = [run EXCEPT ![r].pc = "fetch"]
          /\ UNCHANGED skipped
    /\ UNCHANGED << settings, raised, rent_checks, email_logs, outbox, api_calls,
                    runs_started, completed >>

\* check_property_rent_payment: the query for an existing check, and the
\* return when there is one.
Lookup(r) ==
    /\ run[r].pc = "lookup"
    /\ \/ /\ existing_check(rent_checks, run[r].property, run[r].check_date) # {}
          /\ run' = [run EXCEPT ![r].pc = "next"]
          /\ skipped' = skipped \cup {<<run[r].property, run[r].check_date>>}
       \/ /\ existing_check(rent_checks, run[r].property, run[r].check_date) = {}
          /\ run' = [run EXCEPT ![r].pc = "fetch"]
          /\ UNCHANGED skipped
    /\ UNCHANGED << settings, raised, rent_checks, email_logs, outbox, api_calls,
                    runs_started, completed >>

\* check_property_rent_payment: get_bank_transactions.
Fetch(r) ==
    /\ run[r].pc = "fetch"
    /\ \/ /\ run[r].user \notin users_with_credentials
          /\ run' = [run EXCEPT ![r].transactions = <<>>, ![r].pc = "insert"]
          /\ UNCHANGED api_calls
       \/ /\ run[r].user \in users_with_credentials
          /\ \E response \in Responses :
                run' = [run EXCEPT ![r].transactions = get_bank_transactions(response),
                                   ![r].pc = "insert"]
          /\ api_calls' = Append(api_calls,
                [ user_id |-> run[r].user, property_id |-> run[r].property,
                  start |-> run[r].check_date, end |-> run[r].check_date + 1 ])
    /\ UNCHANGED << settings, raised, rent_checks, email_logs, outbox, runs_started,
                    completed, skipped >>

\* The landlord message sent in the step that adds the row, not after it.
Insert_dispatch_first(r) ==
    /\ run[r].pc = "insert"
    /\ LET property == properties[run[r].property]
           rent_payment == find_rent_payment(run[r].transactions, property)
           id == next_id(rent_checks)
           rent_check == RentCheck(id, property.id, run[r].check_date, rent_payment,
                                   property.rent_amount)
       IN /\ rent_checks' = Append(rent_checks, rent_check)
          /\ outbox' = Append(outbox,
                Dispatch(UserEmail(run[r].user), landlord_email_type(rent_check),
                         landlord_amounts(landlord_email_type(rent_check),
                                          rent_check, property),
                         property.id, run[r].check_date, TRUE))
          /\ run' = [run EXCEPT ![r].rent_check = id, ![r].transactions = <<>>,
                                ![r].pc = "landlord"]
    /\ UNCHANGED << settings, raised, email_logs, api_calls, runs_started,
                    completed, skipped >>

\* The row added and committed, and send_notifications not called.
Insert_without_notify(r) ==
    /\ run[r].pc = "insert"
    /\ LET property == properties[run[r].property]
           rent_payment == find_rent_payment(run[r].transactions, property)
           id == next_id(rent_checks)
       IN /\ rent_checks' = Append(rent_checks,
                RentCheck(id, property.id, run[r].check_date, rent_payment,
                          property.rent_amount))
          /\ run' = [run EXCEPT ![r].transactions = <<>>, ![r].pc = "next"]
    /\ UNCHANGED << settings, raised, email_logs, outbox, api_calls, runs_started,
                    completed, skipped >>

\* check_property_rent_payment: find_rent_payment, then the row is added
\* and committed.
Insert(r) ==
    /\ run[r].pc = "insert"
    /\ LET property == properties[run[r].property]
           rent_payment == find_rent_payment(run[r].transactions, property)
           id == next_id(rent_checks)
       IN /\ rent_checks' = Append(rent_checks,
                RentCheck(id, property.id, run[r].check_date, rent_payment,
                          property.rent_amount))
          /\ run' = [run EXCEPT ![r].rent_check = id, ![r].transactions = <<>>,
                                ![r].pc = "landlord"]
    /\ UNCHANGED << settings, raised, email_logs, outbox, api_calls, runs_started,
                    completed, skipped >>

\* send_notifications: the landlord message of the branch taken, after
\* which notification_sent is set on the object.
NotifyLandlord(r) ==
    /\ run[r].pc = "landlord"
    /\ LET property == properties[run[r].property]
           rent_check == row_of(rent_checks, run[r].rent_check)
           email_type == landlord_email_type(rent_check)
       IN \E env \in MailEnvs(mail_config) :
            LET sent == send_email(UserEmail(run[r].user), email_type, env) IN
            /\ outbox' = Append(outbox,
                  Dispatch(UserEmail(run[r].user), email_type,
                           landlord_amounts(email_type, rent_check, property),
                           property.id, rent_check.check_date, sent.ok))
            /\ email_logs' = email_logs \o sent.log
            /\ run' = [run EXCEPT
                          ![r].notification_sent = landlord_notification_sent(sent.ok),
                          ![r].pc = IF tenant_reminder_due(rent_check, property)
                                    THEN "tenant" ELSE "commit"]
    /\ UNCHANGED << settings, raised, rent_checks, api_calls, runs_started, completed,
                    skipped >>

\* send_notifications: the tenant reminder. log_email commits the session,
\* and with it the notification_sent already set on the object.
NotifyTenant(r) ==
    /\ run[r].pc = "tenant"
    /\ LET property == properties[run[r].property]
           rent_check == row_of(rent_checks, run[r].rent_check)
       IN \E env \in MailEnvs(mail_config) :
            LET sent == send_email(property.tenant_email, "tenant_reminder", env) IN
            /\ outbox' = Append(outbox,
                  Dispatch(property.tenant_email, "tenant_reminder",
                           [expected |-> Some(property.rent_amount), actual |-> None],
                           property.id, rent_check.check_date, sent.ok))
            /\ email_logs' = email_logs \o sent.log
            /\ rent_checks' = IF sent.log # None THEN flushed(rent_checks, run[r])
                              ELSE rent_checks
            /\ run' = [run EXCEPT ![r].tenant_notification_sent = TRUE,
                                  ![r].pc = "commit"]
    /\ UNCHANGED << settings, raised, api_calls, runs_started, completed, skipped >>

\* send_notifications: its closing db.session.commit(), and the return to
\* the loop of check_user_rent_payments.
Commit(r) ==
    /\ run[r].pc = "commit"
    /\ rent_checks' = flushed(rent_checks, run[r])
    /\ run' = [run EXCEPT ![r].pc = "next", ![r].rent_check = 0,
                          ![r].notification_sent = FALSE,
                          ![r].tenant_notification_sent = FALSE]
    /\ UNCHANGED << settings, raised, email_logs, outbox, api_calls, runs_started,
                    completed, skipped >>

\* The user ids and dates a diagnostic caller passes.
UserIdArgs == Users \cup {3}
DateArgs == {None, Some(FirstToday - 1)}

\* One step of the Driver run by process r.
Step(r) ==
    \/ StartAll(r)
    \/ \E user_id \in UserIdArgs, date \in DateArgs : StartUser(r, user_id, date)
    \/ NextUser(r)
    \/ CheckDue(r)
    \/ Lookup(r)
    \/ Fetch(r)
    \/ Insert(r)
    \/ NotifyLandlord(r)
    \/ NotifyTenant(r)
    \/ Commit(r)

\* Runs executed one at a time: a single process runs the Driver.
Next == Tick \/ Step(1)

Spec == Init /\ [][Next]_vars

(* ----------------------------- overlapping runs ------------------------ *)

\* The states of Init with mail going through SMTP, credentials stored for
\* the first landlord only and a Monthly property of each landlord, due on
\* the first check date, the first with the reminder set.
InitOverlap ==
    /\ Init
    /\ mail_config = "smtp"
    /\ akahu_credentials = stored_by({1})
    /\ \A p \in PropertyIds :
          /\ properties[p].user_id = p
          /\ properties[p].rent_frequency = "Monthly"
          /\ properties[p].send_tenant_reminder = (p = 1)

\* Runs that may overlap: two processes run the Driver.
NextOverlap == Tick \/ \E r \in Runners : Step(r)

SpecOverlap == InitOverlap /\ [][NextOverlap]_vars

(* ------------------------ the due dates of a calendar ------------------ *)

\* The due-day settings add_property stores: a day of the week for Weekly
\* and Fortnightly, a day of the month for Monthly, the other column NULL.
DueSettings ==
    { [rent_frequency |-> f, rent_due_day_of_week |-> Some(w), rent_due_day |-> None] :
         f \in {"Weekly", "Fortnightly"}, w \in 0..6 }
      \cup { [rent_frequency |-> "Monthly", rent_due_day_of_week |-> None,
               rent_due_day |-> Some(n)] : n \in 1..31 }

\* The states of a deployment on any day up to MaxDate + 1: one landlord
\* with credentials, the first property with any due-day setting, the second
\* due on the 14th of the month; mail is logged, not sent.
InitDue ==
    /\ today \in 1..(MaxDate + 1)
    /\ mail_config = "unconfigured_dev"
    /\ akahu_credentials = stored_by({1})
    /\ submitted = posted_by({1})
    /\ \E s \in DueSettings :
          properties = [p \in PropertyIds |->
                           Property(p, 1, IF p = 1 THEN s ELSE Monthly_14th, p = 1)]
    /\ rent_checks = <<>>
    /\ email_logs = <<>>
    /\ outbox = <<>>
    /\ api_calls = <<>>
    /\ run = [r \in Runners |-> Idle]
    /\ runs_started = 0
    /\ completed = [last |-> None, again |-> FALSE, error |-> None]
    /\ skipped = {}
    /\ raised = {}
    /\ Registered(Subscribers)

\* The scheduled run of that day, one step at a time.
NextDue ==
    \/ StartAll(1)
    \/ NextUser(1)
    \/ CheckDue(1)
    \/ Lookup(1)
    \/ Fetch(1)
    \/ Insert(1)
    \/ NotifyLandlord(1)
    \/ NotifyTenant(1)
    \/ Commit(1)

SpecDue == InitDue /\ [][NextDue]_vars

(* --------------------------- runs with exceptions ---------------------- *)

\* An exception that ends a run caught by no handler at all.
caught_nowhere(entry) == FALSE

\* Whether an exception that leaves the loops of a run is caught before it
\* reaches the caller: run_daily_rent_check wraps its whole body in a
\* try/except Exception that logs, run_rent_check_for_user has no handler.
caught(entry) == entry = "all"

\* The invocation an exception ended, and whether the exception was caught.
Ended(me) == [ inv |-> Invocation(me), caught |-> caught(me.entry) ]

\* An exception raised while property_id was checked by the run-th
\* invocation, which was invoked as inv.
Raised(me, n, kind) ==
    [ inv |-> Invocation(me), run |-> n, property_id |-> me.property, kind |-> kind ]

\* The transaction find_rent_payment keeps can be read at line 102: none
\* was kept, or the one kept has an amount.
WellFormed(r) ==
    LET rent_payment == find_rent_payment(run[r].transactions,
                                          properties[run[r].property])
    IN IF rent_payment = None THEN TRUE ELSE "amount" \in DOMAIN rent_payment[1]

\* get_bank_transactions when the aggregator answers 200 with an item that
\* holds the keyword and has no amount.
FetchMalformed(r) ==
    /\ run[r].pc = "fetch"
    /\ raised = {}
    /\ run[r].user \in users_with_credentials
    /\ run' = [run EXCEPT ![r].transactions = << [description |-> Desc_rent] >>,
                          ![r].pc = "insert"]
    /\ api_calls' = Append(api_calls,
          [ user_id |-> run[r].user, property_id |-> run[r].property,
            start |-> run[r].check_date, end |-> run[r].check_date + 1 ])
    /\ UNCHANGED << settings, rent_checks, email_logs, outbox, runs_started,
                    completed, skipped, raised >>

\* check_property_rent_payment: rent_payment['amount'] raises KeyError, which
\* the handler of check_user_rent_payments logs; the loop goes on.
InsertRaises(r) ==
    /\ run[r].pc = "insert"
    /\ ~WellFormed(r)
    /\ raised' = raised \cup {Raised(run[r], runs_started, "KeyError")}
    /\ run' = [run EXCEPT ![r].transactions = <<>>, ![r].pc = "next"]
    /\ UNCHANGED << settings, rent_checks, email_logs, outbox, api_calls,
                    runs_started, completed, skipped >>

\* check_property_rent_payment: db.session.commit() of line 107 raises. The
\* row is not written, and the session, which the engine never rolls back,
\* refuses every later query. The handler of check_user_rent_payments logs
\* and the loop goes on, or the handler raises in turn on the attribute it
\* reads (expired by the failed flush) and the exception ends the run.
CommitFails(r) ==
    /\ run[r].pc = "insert"
    /\ WellFormed(r)
    /\ raised = {}
    /\ raised' = raised \cup {Raised(run[r], runs_started, "commit")}
    /\ \/ /\ run' = [run EXCEPT ![r].transactions = <<>>, ![r].session = "failed",
                                ![r].pc = "next"]
          /\ UNCHANGED completed
       \/ /\ run' = [run EXCEPT ![r] = Idle]
          /\ completed' = [completed EXCEPT !.error = Some(Ended(run[r]))]
    /\ UNCHANGED << settings, rent_checks, email_logs, outbox, api_calls,
                    runs_started, skipped >>

\* With a failed session: the query of check_property_rent_payment (line
\* 78), the attribute load of is_rent_due or the query of
\* check_user_rent_payments (line 41) raises. The handler of the loop the
\* run is in logs and the loop goes on, or the handler raises in turn and
\* the exception ends the run.
Refused(r) ==
    /\ run[r].session = "failed"
    /\ \/ /\ run[r].pc = "lookup"
          /\ run' = [run EXCEPT ![r].pc = "next"]
          /\ UNCHANGED completed
       \/ /\ run[r].pc = "next"
          /\ run[r].props # <<>>
          /\ run' = [run EXCEPT ![r].property = Head(run[r].props),
                                ![r].props = Tail(@)]
          /\ UNCHANGED completed
       \/ /\ run[r].pc = "next"
          /\ run[r].props = <<>>
          /\ run[r].users # <<>>
          /\ run' = [run EXCEPT ![r].user = Head(run[r].users),
                                ![r].users = Tail(@)]
          /\ UNCHANGED completed
       \/ /\ run[r].pc \in {"lookup", "next"}
          /\ run' = [run EXCEPT ![r] = Idle]
          /\ completed' = [completed EXCEPT !.error = Some(Ended(run[r]))]
    /\ UNCHANGED << settings, rent_checks, email_logs, outbox, api_calls,
                    runs_started, skipped, raised >>

\* One step of a run in which the aggregator may answer with a malformed
\* item and a commit may fail.
StepFault(r) ==
    \/ StartAll(r)
    \/ \E user_id \in UserIdArgs, date \in DateArgs : StartUser(r, user_id, date)
    \/ (IF run[r].session = "active" THEN TRUE ELSE run[r].users = <<>>) /\ NextUser(r)
    \/ CheckDue(r)
    \/ run[r].session = "active" /\ Lookup(r)
    \/ Refused(r)
    \/ Fetch(r)
    \/ FetchMalformed(r)
    \/ WellFormed(r) /\ Insert(r)
    \/ InsertRaises(r)
    \/ CommitFails(r)
    \/ NotifyLandlord(r)
    \/ NotifyTenant(r)
    \/ Commit(r)

\* The states of Init with mail logged, not sent, both properties due on
\* the first check date and every landlord with credentials.
InitFault ==
    /\ Init
    /\ mail_config = "unconfigured_dev"
    /\ users_with_credentials = { properties[p].user_id : p \in PropertyIds }
    /\ \A p \in PropertyIds :
          /\ properties[p].rent_frequency = "Monthly"
          /\ properties[p].send_tenant_reminder = (p = 1)

NextFault == StepFault(1)

SpecFault == InitFault /\ [][NextFault]_vars

(* ------------------------ the aggregator's answers --------------------- *)

\* What GET /transactions may do: answer 200 with the rent paid in full or
\* short, answer 500 or 404 with no items, answer 503 with a body that
\* carries items, raise (no answer at all), or answer 200 with a body that
\* response.json() cannot parse (it raises).
Answers ==
    { [raises |-> FALSE, status_code |-> 200, items |-> << Tx(Desc_rent, 80000) >>],
      [raises |-> FALSE, status_code |-> 200, items |-> << Tx(Desc_rent, -75000) >>],
      [raises |-> FALSE, status_code |-> 500, items |-> <<>>],
      [raises |-> FALSE, status_code |-> 404, items |-> <<>>],
      [raises |-> FALSE, status_code |-> 503, items |-> << Tx(Desc_rent, 80000) >>],
      [raises |-> TRUE,  status_code |-> 500, items |-> <<>>],
      [raises |-> TRUE,  status_code |-> 200, items |-> << Tx(Desc_rent, 80000) >>] }

\* The orders in which a query without ORDER BY may return the rows S.
orders(S) ==
    { o \in [1..Cardinality(S) -> S] :
         \A i, j \in 1..Cardinality(S) : o[i] = o[j] => i = j }

\* check_all_rent_payments up to its loop, the users in the order the
\* database returns them.
StartAllAnyOrder(r) ==
    /\ run[r].pc = "idle"
    /\ runs_started < MaxRuns
    /\ runs_started' = runs_started + 1
    /\ \E rows \in orders(users_with_credentials) :
          run' = [run EXCEPT ![r] =
                      [Idle EXCEPT !.pc = "next", !.entry = "all",
                                   !.check_date = today - 1,
                                   !.users = rows]]
    /\ UNCHANGED << settings, raised, rent_checks, email_logs, outbox, api_calls,
                    completed, skipped >>

\* The loop over every property of the table, whoever owns it.
NextUserAnyOrder_all_properties(r) ==
    /\ run[r].pc = "next"
    /\ run[r].props = <<>>
    /\ \/ /\ run[r].users # <<>>
          /\ LET u == Head(run[r].users) IN
             \E props \in orders(DOMAIN properties) :
                run' = [run EXCEPT ![r].user = u, ![r].users = Tail(@),
                                   ![r].props = props]
          /\ UNCHANGED completed
       \/ /\ run[r].users = <<>>
          /\ run' = [run EXCEPT ![r] = Idle]
          /\ completed' = [last |-> Some(Invocation(run[r])),
                           again |-> completed.last = Some(Invocation(run[r])),
                           error |-> completed.error]
    /\ UNCHANGED << settings, raised, rent_checks, email_logs, outbox, api_calls,
                    runs_started, skipped >>

\* The loops move on, the properties of the next user in the order the
\* database returns them.
NextUserAnyOrder(r) ==
    /\ run[r].pc = "next"
    /\ run[r].props = <<>>
    /\ \/ /\ run[r].users # <<>>
          /\ LET u == Head(run[r].users) IN
             \E props \in orders({p \in DOMAIN properties : properties[p].user_id = u}) :
                run' = [run EXCEPT ![r].user = u, ![r].users = Tail(@),
                                   ![r].props = props]
          /\ UNCHANGED completed
       \/ /\ run[r].users = <<>>
          /\ run' = [run EXCEPT ![r] = Idle]
          /\ completed' = [last |-> Some(Invocation(run[r])),
                           again |-> completed.last = Some(Invocation(run[r])),
                           error |-> completed.error]
    /\ UNCHANGED << settings, raised, rent_checks, email_logs, outbox, api_calls,
                    runs_started, skipped >>

\* The check of the property given up when the aggregator gave no usable
\* answer.
FetchAnswered_abandon(r) ==
    /\ run[r].pc = "fetch"
    /\ \/ /\ run[r].user \notin users_with_credentials
          /\ run' = [run EXCEPT ![r].transactions = <<>>, ![r].pc = "insert"]
          /\ UNCHANGED api_calls
       \/ /\ run[r].user \in users_with_credentials
          /\ \E response \in Answers :
                /\ run' = [run EXCEPT
                              ![r].transactions = get_bank_transactions(response),
                              ![r].pc = IF response.raises \/ response.status_code # 200
                                        THEN "next" ELSE "insert"]
                /\ api_calls' = Append(api_calls,
                      [ user_id |-> run[r].user, property_id |-> run[r].property,
                        start |-> run[r].check_date, end |-> run[r].check_date + 1,
                        response |-> response ])
    /\ UNCHANGED << settings, raised, rent_checks, email_logs, outbox, runs_started,
                    completed, skipped >>

\* get_bank_transactions, with what requests.get did kept beside the call.
FetchAnswered(r) ==
    /\ run[r].pc = "fetch"
    /\ \/ /\ run[r].user \notin users_with_credentials
          /\ run' = [run EXCEPT ![r].transactions = <<>>, ![r].pc = "insert"]
          /\ UNCHANGED api_calls
       \/ /\ run[r].user \in users_with_credentials
          /\ \E response \in Answers :
                /\ run' = [run EXCEPT
                              ![r].transactions = get_bank_transactions(response),
                              ![r].pc = "insert"]
                /\ api_calls' = Append(api_calls,
                      [ user_id |-> run[r].user, property_id |-> run[r].property,
                        start |-> run[r].check_date, end |-> run[r].check_date + 1,
                        response |-> response ])
    /\ UNCHANGED << settings, raised, rent_checks, email_logs, outbox, runs_started,
                    completed, skipped >>

\* A deployment on the day after both properties were due, mail sent over
\* SMTP.
InitAnswers ==
    /\ Init
    /\ mail_config = "smtp"
    /\ \A p \in PropertyIds : is_rent_due(properties[p], today - 1)

\* What a scheduled run does once it has started.
RunAnswers(r) ==
    \/ NextUserAnyOrder(r)
    \/ CheckDue(r)
    \/ Lookup(r)
    \/ FetchAnswered(r)
    \/ Insert(r)
    \/ NotifyLandlord(r)
    \/ NotifyTenant(r)
    \/ Commit(r)

NextAnswers == StartAllAnyOrder(1) \/ RunAnswers(1)

SpecAnswers == InitAnswers /\ [][NextAnswers]_vars

\* Of those deployments, the one of two landlords with credentials and a
\* property each, due monthly, the first with the tenant reminder.
InitFair ==
    /\ InitAnswers
    /\ users_with_credentials = Users
    /\ \A p \in PropertyIds :
          /\ properties[p].user_id = p
          /\ properties[p].rent_frequency = "Monthly"
          /\ properties[p].send_tenant_reminder = (p = 1)

\* The scheduler's thread runs a started run on: every call it makes
\* returns or raises.
SpecFair == InitFair /\ [][NextAnswers]_vars /\ WF_vars(RunAnswers(1))

(* ------------------- a failed commit, rows in any order ---------------- *)

\* One step of a scheduled run whose queries return rows in any order and
\* in which the commit of a row may fail.
StepFaultAnyOrder(r) ==
    \/ StartAllAnyOrder(r)
    \/ (IF run[r].session = "active" THEN TRUE ELSE run[r].users = <<>>)
          /\ NextUserAnyOrder(r)
    \/ CheckDue(r)
    \/ run[r].session = "active" /\ Lookup(r)
    \/ Refused(r)
    \/ Fetch(r)
    \/ Insert(r)
    \/ CommitFails(r)
    \/ NotifyLandlord(r)
    \/ NotifyTenant(r)
    \/ Commit(r)

NextFaultAnyOrder == StepFaultAnyOrder(1)

SpecFaultAnyOrder == InitFault /\ [][NextFaultAnyOrder]_vars

(* ---------------------------- the web handlers ------------------------ *)

\* users.subscription_active of landlord u.
subscription_active(u) == users[u].subscription_active

\* A PropertyForm that validates: both selects carry a choice, whatever the
\* frequency.
PropertyForm(rent_frequency, rent_due_day_of_week, rent_due_day, rent_amount, send_tenant_reminder) ==
    [ rent_frequency       |-> rent_frequency,
      rent_due_day_of_week |-> rent_due_day_of_week,
      rent_due_day         |-> rent_due_day,
      rent_amount          |-> rent_amount,
      send_tenant_reminder |-> send_tenant_reminder ]

\* The forms landlords post. Of the date checked (Sunday 2024-01-14) the
\* Weekly one is not due, the others are.
PropertyForms ==
    { PropertyForm("Weekly", 0, 14, 80000, FALSE),
      PropertyForm("Fortnightly", 6, 14, 80000, TRUE),
      PropertyForm("Monthly", 6, 14, 80000, FALSE),
      PropertyForm("Monthly", 0, 14, 75000, TRUE) }

\* No Driver run is in progress: requests are served between runs, one at
\* a time.
NoRun == \A r \in Runners : run[r].pc = "idle"

\* The properties of a landlord.
properties_of(u) == { p \in DOMAIN properties : properties[p].user_id = u }

\* properties.id of the next row.
next_property_id ==
    IF DOMAIN properties = {} THEN 1
    ELSE 1 + (CHOOSE m \in DOMAIN properties : \A p \in DOMAIN properties : p <= m)

\* The handler without the test of the subscription.
add_property_no_guard(u, form) ==
    /\ NoRun
    /\ next_property_id \in PropertyIds
    /\ LET id == next_property_id
           weekly == form.rent_frequency \in {"Weekly", "Fortnightly"}
           s == [ rent_frequency |-> form.rent_frequency,
                  rent_due_day_of_week |->
                      IF weekly THEN Some(form.rent_due_day_of_week) ELSE None,
                  rent_due_day |->
                      IF form.rent_frequency = "Monthly"
                      THEN Some(form.rent_due_day) ELSE None ]
           property == [Property(id, u, s, form.send_tenant_reminder)
                           EXCEPT !.rent_amount = form.rent_amount]
       IN properties' = [p \in DOMAIN properties \cup {id} |->
                            IF p = id THEN property ELSE properties[p]]
    /\ UNCHANGED << today, mail_config, akahu_credentials, submitted, rent_checks,
                    email_logs, outbox, api_calls, run, runs_started, completed,
                    skipped, raised, accounts >>

\* POST /add_property by landlord u. The table holds at most the ids of
\* PropertyIds.
add_property(u, form) ==
    /\ NoRun
    /\ subscription_active(u) \/ Cardinality(properties_of(u)) = 0
    /\ next_property_id \in PropertyIds
    /\ LET id == next_property_id
           weekly == form.rent_frequency \in {"Weekly", "Fortnightly"}
           s == [ rent_frequency |-> form.rent_frequency,
                  rent_due_day_of_week |->
                      IF weekly THEN Some(form.rent_due_day_of_week) ELSE None,
                  rent_due_day |->
                      IF form.rent_frequency = "Monthly"
                      THEN Some(form.rent_due_day) ELSE None ]
           property == [Property(id, u, s, form.send_tenant_reminder)
                           EXCEPT !.rent_amount = form.rent_amount]
       IN properties' = [p \in DOMAIN properties \cup {id} |->
                            IF p = id THEN property ELSE properties[p]]
    /\ UNCHANGED << today, mail_config, akahu_credentials, submitted, rent_checks,
                    email_logs, outbox, api_calls, run, runs_started, completed,
                    skipped, raised, accounts >>

\* form.populate_obj(property): every field of the form onto the row.
populate_obj(form, property) ==
    [property EXCEPT !.rent_frequency = form.rent_frequency,
                     !.rent_due_day_of_week = Some(form.rent_due_day_of_week),
                     !.rent_due_day = Some(form.rent_due_day),
                     !.rent_amount = form.rent_amount,
                     !.send_tenant_reminder = form.send_tenant_reminder]

\* The edit that stops after populate_obj.
edit_property_populate_only(u, property_id, form) ==
    /\ NoRun
    /\ property_id \in properties_of(u)
    /\ properties' = [properties EXCEPT
                         ![property_id] = populate_obj(form, properties[property_id])]
    /\ UNCHANGED << today, mail_config, akahu_credentials, submitted, rent_checks,
                    email_logs, outbox, api_calls, run, runs_started, completed,
                    skipped, raised, accounts >>

\* The edit that also compares the payments already recorded for the
\* property with the new rent.
edit_property_rematch(u, property_id, form) ==
    /\ NoRun
    /\ property_id \in properties_of(u)
    /\ LET property == populate_obj(form, properties[property_id]) IN
       properties' = [properties EXCEPT ![property_id] =
                         IF property.rent_frequency \in {"Weekly", "Fortnightly"}
                         THEN [property EXCEPT !.rent_due_day = None]
                         ELSE [property EXCEPT !.rent_due_day_of_week = None]]
    /\ rent_checks' =
          [i \in 1..Len(rent_checks) |->
              IF rent_checks[i].property_id = property_id /\ rent_checks[i].payment_found
              THEN [rent_checks[i] EXCEPT
                       !.amount_matches = rent_checks[i].payment_amount[1] = form.rent_amount]
              ELSE rent_checks[i]]
    /\ UNCHANGED << today, mail_config, akahu_credentials, submitted,
                    email_logs, outbox, api_calls, run, runs_started, completed,
                    skipped, raised, accounts >>

\* POST /edit_property/<property_id> by landlord u; 404 for a property that
\* is not theirs.
edit_property(u, property_id, form) ==
    /\ NoRun
    /\ property_id \in properties_of(u)
    /\ LET property == populate_obj(form, properties[property_id]) IN
       properties' = [properties EXCEPT ![property_id] =
                         IF property.rent_frequency \in {"Weekly", "Fortnightly"}
                         THEN [property EXCEPT !.rent_due_day = None]
                         ELSE [property EXCEPT !.rent_due_day_of_week = None]]
    /\ UNCHANGED << today, mail_config, akahu_credentials, submitted, rent_checks,
                    email_logs, outbox, api_calls, run, runs_started, completed,
                    skipped, raised, accounts >>

\* The rows left when those of a property are deleted.
without(rows, property_id) ==
    SelectSeq(rows, LAMBDA row : row.property_id # property_id)

\* The property deleted and its rent_checks left.
delete_property_no_cascade(u, property_id) ==
    /\ NoRun
    /\ property_id \in properties_of(u)
    /\ properties' = [p \in DOMAIN properties \ {property_id} |-> properties[p]]
    /\ UNCHANGED << today, mail_config, akahu_credentials, submitted, rent_checks,
                    email_logs, outbox, api_calls, run, runs_started, completed,
                    skipped, raised, accounts >>

\* GET /delete_property/<property_id> by landlord u: the session deletes
\* the rent_checks of the property (cascade of Property.rent_checks), then
\* the property.
delete_property(u, property_id) ==
    /\ NoRun
    /\ property_id \in properties_of(u)
    /\ rent_checks' = without(rent_checks, property_id)
    /\ properties' = [p \in DOMAIN properties \ {property_id} |-> properties[p]]
    /\ UNCHANGED << today, mail_config, akahu_credentials, submitted, email_logs,
                    outbox, api_calls, run, runs_started, completed, skipped,
                    raised, accounts >>

\* POST /akahu_setup by landlord u. When the landlord has a row, the data
\* of both form fields is replaced by the stored tokens before the form is
\* validated and written back (lines 268-270).
akahu_setup(u, app_token, user_token) ==
    /\ NoRun
    /\ submitted' = [submitted EXCEPT
                        ![u] = Some([app_token |-> app_token, user_token |-> user_token])]
    /\ LET mine == { i \in 1..Len(akahu_credentials) : akahu_credentials[i].user_id = u }
       IN IF mine # {}
          THEN LET i == CHOOSE i \in mine : \A j \in mine : i <= j
                   form == [ app_token |-> akahu_credentials[i].app_token,
                             user_token |-> akahu_credentials[i].user_token ]
               IN akahu_credentials' =
                     [akahu_credentials EXCEPT ![i].app_token = form.app_token,
                                               ![i].user_token = form.user_token]
          ELSE akahu_credentials' =
                  Append(akahu_credentials,
                         AkahuCredentials(next_id(akahu_credentials), u,
                                          app_token, user_token))
    /\ UNCHANGED << today, mail_config, properties, rent_checks, email_logs, outbox,
                    api_calls, run, runs_started, completed, skipped, raised, accounts >>

\* The deployment after db.create_all() and the registration of the two
\* landlords: no property, no credentials, no check.
InitForms ==
    /\ today = FirstToday
    /\ mail_config = "unconfigured_dev"
    /\ akahu_credentials = <<>>
    /\ submitted = posted_by({})
    /\ properties = [p \in {} |-> p]
    /\ rent_checks = <<>>
    /\ email_logs = <<>>
    /\ outbox = <<>>
    /\ api_calls = <<>>
    /\ run = [r \in Runners |-> Idle]
    /\ runs_started = 0
    /\ completed = [last |-> None, again |-> FALSE, error |-> None]
    /\ skipped = {}
    /\ raised = {}
    /\ Registered(Subscribers)

\* One request of a landlord.
Request(u) ==
    \/ \E form \in PropertyForms : add_property(u, form)
    \/ \E p \in PropertyIds, form \in PropertyForms : edit_property(u, p, form)
    \/ \E p \in PropertyIds : delete_property(u, p)
    \/ \E app_token \in Tokens, user_token \in Tokens :
          akahu_setup(u, app_token, user_token)

NextForms == \E u \in Users : Request(u)

SpecForms == InitForms /\ [][NextForms]_vars

(* ------------------------ requests between runs ----------------------- *)

\* The form posted between runs: a Monthly property due on the date
\* checked, with another rent than the properties have at first and
\* without the tenant reminder.
WebForms == { PropertyForm("Monthly", 0, 14, 75000, FALSE) }

\* The scheduled runs of a deployment whose first landlord adds, edits and
\* deletes properties between them.
NextWeb ==
    \/ StartAll(1)
    \/ NextUser(1)
    \/ CheckDue(1)
    \/ Lookup(1)
    \/ Fetch(1)
    \/ Insert(1)
    \/ NotifyLandlord(1)
    \/ NotifyTenant(1)
    \/ Commit(1)
    \/ \E form \in WebForms : add_property(1, form)
    \/ \E p \in PropertyIds, form \in WebForms : edit_property(1, p, form)
    \/ \E p \in PropertyIds : delete_property(1, p)

\* The deployment of InitFault in which the first landlord owns both
\* properties.
InitWeb ==
    /\ InitFault
    /\ \A p \in PropertyIds : properties[p].user_id = 1

SpecWeb == InitWeb /\ [][NextWeb]_vars

(* ------------------------------ subscriptions -------------------------- *)

\* GET /subscription_success by landlord u; paid tells whether the Stripe
\* session retrieved has payment_status 'paid'. The subscription of the
\* session becomes the landlord's.
subscription_success(u, paid) ==
    /\ NoRun
    /\ IF paid
       THEN /\ users' = [users EXCEPT ![u].subscription_active = TRUE,
                                      ![u].subscription_id = Some(u)]
            /\ activated' = activated \cup {u}
       ELSE UNCHANGED << users, activated >>
    /\ UNCHANGED << today, mail_config, akahu_credentials, properties, submitted,
                    rent_checks, email_logs, outbox, api_calls, run, runs_started,
                    completed, skipped, raised, password_reset_tokens, utcnow,
                    resets >>

\* The events Stripe posts to the webhook.
StripeEvents ==
    { [type |-> t, id |-> id, status |-> st] :
        t \in {"customer.subscription.deleted", "customer.subscription.updated",
               "invoice.paid"},
        id \in Users, st \in {"active", "past_due"} }

\* POST /stripe_webhook with a signed event: the user found by the id of
\* the subscription, if any, is deactivated or given the status of the
\* subscription.
stripe_webhook(event) ==
    /\ NoRun
    /\ LET found == { u \in Users : users[u].subscription_id = Some(event.id) } IN
       IF found = {} \/ event.type = "invoice.paid"
       THEN UNCHANGED << users, activated >>
       ELSE LET u == CHOOSE u \in found : \A v \in found : u <= v IN
            IF event.type = "customer.subscription.deleted"
            THEN /\ users' = [users EXCEPT ![u].subscription_active = FALSE,
                                           ![u].subscription_id = None]
                 /\ UNCHANGED activated
            ELSE /\ users' = [users EXCEPT
                                 ![u].subscription_active = event.status = "active"]
                 /\ activated' = IF event.status = "active"
                                 THEN activated \cup {u} ELSE activated
    /\ UNCHANGED << today, mail_config, akahu_credentials, properties, submitted,
                    rent_checks, email_logs, outbox, api_calls, run, runs_started,
                    completed, skipped, raised, password_reset_tokens, utcnow,
                    resets >>

\* The requests of landlords who subscribe, add and delete properties,
\* and the events of Stripe, handled one at a time.
NextSubscription ==
    \/ \E u \in Users, form \in PropertyForms : add_property(u, form)
    \/ \E u \in Users, p \in PropertyIds : delete_property(u, p)
    \/ \E u \in Users, paid \in BOOLEAN : subscription_success(u, paid)
    \/ \E event \in StripeEvents : stripe_webhook(event)

\* From the deployment after registration: no property yet; the first
\* landlord has subscribed, the second has not.
SpecSubscription == InitForms /\ [][NextSubscription]_vars

(* ----------------------------- password resets ------------------------ *)

\* timedelta(hours=24), the life of a reset token, in units of 12 hours.
TokenLife == 2

\* A row of password_reset_tokens as forgot_password adds it.
PasswordResetToken(id, user_id, token, expires_at) ==
    [ id |-> id, user_id |-> user_id, token |-> token, expires_at |-> expires_at,
      used |-> FALSE ]

\* secrets.token_urlsafe(32): 256 random bits, a value that no row holds.
\* The n-th token issued is written n.
token_urlsafe == next_id(password_reset_tokens)

\* The tokens a request may carry in its URL: those issued, and one that
\* never was.
UrlTokens == 1..(MaxTokens + 1)

\* The clock moves on by 12 hours.
Later ==
    /\ utcnow < MaxClock
    /\ utcnow' = utcnow + 1
    /\ UNCHANGED << today, mail_config, akahu_credentials, properties, submitted,
                    rent_checks, email_logs, outbox, api_calls, run, runs_started,
                    completed, skipped, raised, users, password_reset_tokens,
                    activated, resets >>

\* POST /forgot_password with the email of user_id (3 is no user's). For
\* a user a token row is added and committed and the reset mail sent; the
\* answer is the same either way.
forgot_password(user_id) ==
    /\ NoRun
    /\ IF user_id \in Users
       THEN /\ Len(password_reset_tokens) < MaxTokens
            /\ password_reset_tokens' =
                  Append(password_reset_tokens,
                         PasswordResetToken(next_id(password_reset_tokens), user_id,
                                            token_urlsafe, utcnow + TokenLife))
            /\ \E env \in MailEnvs(mail_config) :
                  email_logs' = email_logs \o
                      send_email(UserEmail(user_id), "password_reset", env).log
       ELSE UNCHANGED << password_reset_tokens, email_logs >>
    /\ UNCHANGED << today, mail_config, akahu_credentials, properties, submitted,
                    rent_checks, outbox, api_calls, run, runs_started, completed,
                    skipped, raised, users, utcnow, activated, resets >>

\* The passwords validate_password accepts: eight characters or more with
\* an upper-case and a lower-case letter, a digit and a symbol.
StrongPasswords == {"Password_1!", "Password_2!"}

\* The ResetPasswordForms posted: two that validate, one whose
\* confirmation differs and one whose password is too short.
ResetPasswordForms ==
    { [password |-> "Password_1!", confirm_password |-> "Password_1!"],
      [password |-> "Password_2!", confirm_password |-> "Password_2!"],
      [password |-> "Password_1!", confirm_password |-> "Password_2!"],
      [password |-> "short", confirm_password |-> "short"] }

\* form.validate_on_submit() of a ResetPasswordForm: a POST whose password
\* is strong and confirmed.
validate_on_submit(method, form) ==
    /\ method = "POST"
    /\ form.password \in StrongPasswords
    /\ form.confirm_password = form.password

\* The password changed and the token left as it was.
reset_password_keeps_token(token, method, form) ==
    /\ NoRun
    /\ LET found == { i \in 1..Len(password_reset_tokens) :
                        /\ password_reset_tokens[i].token = token
                        /\ ~password_reset_tokens[i].used }
       IN IF found = {}
          THEN UNCHANGED << users, password_reset_tokens, resets >>
          ELSE LET i == CHOOSE i \in found : \A j \in found : i <= j
                   reset_token == password_reset_tokens[i]
               IN IF reset_token.expires_at < utcnow
                     \/ ~validate_on_submit(method, form)
                  THEN UNCHANGED << users, password_reset_tokens, resets >>
                  ELSE /\ users' = [users EXCEPT ![reset_token.user_id].password_hash =
                                        generate_password_hash(form.password)]
                       /\ UNCHANGED password_reset_tokens
                       /\ resets' = Append(resets,
                              [ token |-> token, id |-> reset_token.id,
                                user_id |-> reset_token.user_id, at |-> utcnow ])
    /\ UNCHANGED << today, mail_config, akahu_credentials, properties, submitted,
                    rent_checks, email_logs, outbox, api_calls, run, runs_started,
                    completed, skipped, raised, utcnow, activated >>

\* GET or POST /reset_password/<token>. The first unused row with the
\* token is looked up; without one, or with one whose expires_at lies
\* before utcnow(), the request is turned away. A form that validates
\* changes the password of the row's user and marks the row used, in one
\* commit; any other request shows the form.
reset_password(token, method, form) ==
    /\ NoRun
    /\ LET found == { i \in 1..Len(password_reset_tokens) :
                        /\ password_reset_tokens[i].token = token
                        /\ ~password_reset_tokens[i].used }
       IN IF found = {}
          THEN UNCHANGED << users, password_reset_tokens, resets >>
          ELSE LET i == CHOOSE i \in found : \A j \in found : i <= j
                   reset_token == password_reset_tokens[i]
               IN IF reset_token.expires_at < utcnow
                     \/ ~validate_on_submit(method, form)
                  THEN UNCHANGED << users, password_reset_tokens, resets >>
                  ELSE /\ users' = [users EXCEPT ![reset_token.user_id].password_hash =
                                        generate_password_hash(form.password)]
                       /\ password_reset_tokens' =
                              [password_reset_tokens EXCEPT ![i].used = TRUE]
                       /\ resets' = Append(resets,
                              [ token |-> token, id |-> reset_token.id,
                                user_id |-> reset_token.user_id, at |-> utcnow ])
    /\ UNCHANGED << today, mail_config, akahu_credentials, properties, submitted,
                    rent_checks, email_logs, outbox, api_calls, run, runs_started,
                    completed, skipped, raised, utcnow, activated >>

\* Any sequence of forgot_password and reset_password requests, as time
\* passes.
NextReset ==
    \/ Later
    \/ \E user_id \in Users \cup {3} : forgot_password(user_id)
    \/ \E token \in UrlTokens, method \in {"GET", "POST"}, form \in ResetPasswordForms :
          reset_password(token, method, form)

SpecReset == InitForms /\ [][NextReset]_vars

(* --------------------------- the scheduler's job ----------------------- *)

\* The job of the BackgroundScheduler of app.py: run_daily_rent_check, called
\* in the scheduler's thread. The job pushes no application context and db
\* is bound to the app by init_app alone, so the landlord query of
\* check_all_rent_payments (line 26) raises RuntimeError before a row is
\* read. The query stands outside the try of the loop; the handler of
\* run_daily_rent_check logs the exception and the call returns.
ScheduledJob(r) ==
    /\ run[r].pc = "idle"
    /\ runs_started < MaxRuns
    /\ runs_started' = runs_started + 1
    /\ completed' = [completed EXCEPT !.error =
                        Some(Ended([Idle EXCEPT !.entry = "all",
                                                !.check_date = today - 1]))]
    /\ UNCHANGED << settings, run, rent_checks, email_logs, outbox, api_calls,
                    skipped, raised >>

\* The deployment as app.py starts it: the days pass and the scheduler runs
\* its job.
NextScheduled == Tick \/ ScheduledJob(1)

SpecScheduled == Init /\ [][NextScheduled]_vars

\* The states of InitFault with mail sent over SMTP, where a dispatch may
\* fail.
InitDaily ==
    /\ Init
    /\ mail_config = "smtp"
    /\ users_with_credentials = { properties[p].user_id : p \in PropertyIds }
    /\ \A p \in PropertyIds :
          /\ properties[p].rent_frequency = "Monthly"
          /\ properties[p].send_tenant_reminder = (p = 1)

\* The calls of run_daily_rent_check and run_rent_check_for_user in which
\* the landlord query, the aggregator's answer, the commit of a row and the
\* dispatch may each fail.
NextDaily == ScheduledJob(1) \/ StepFault(1)

SpecDaily == InitDaily /\ [][NextDaily]_vars

(* -------------------------------- claims ------------------------------- *)

\* The dates a run can check.
Dates == (FirstToday - 1)..(FirstToday + MaxTicks)

\* The rows of a ledger for a property and a date.
ChecksIn(rows, p, d) ==
    { i \in 1..Len(rows) : rows[i].property_id = p /\ rows[i].check_date = d }

LandlordTypes == {"rent_received", "rent_amount_mismatch", "rent_missed"}

\* The landlord messages, and the tenant reminders, dispatched for a
\* property and a date.
LandlordMail(p, d) ==
    { i \in 1..Len(outbox) : /\ outbox[i].property_id = p
                             /\ outbox[i].check_date = d
                             /\ outbox[i].email_type \in LandlordTypes }

TenantMail(p, d) ==
    { i \in 1..Len(outbox) : /\ outbox[i].property_id = p
                             /\ outbox[i].check_date = d
                             /\ outbox[i].email_type = "tenant_reminder" }

\* A run is still inside send_notifications for the row (at one of pcs).
Notifying(row, pcs) ==
    \E r \in Runners : run[r].rent_check = row.id /\ run[r].pc \in pcs

\* C1: with runs executed one at a time, the ledger never holds two rows
\* for the same property and check date.
C1_OneCheckPerPropertyAndDate ==
    \A p \in PropertyIds, d \in Dates : Cardinality(ChecksIn(rent_checks, p, d)) <= 1

\* A later run came upon a pair already in the ledger, which holds one row for it.
C1_Witness ==
    \E pair \in skipped : Cardinality(ChecksIn(rent_checks, pair[1], pair[2])) = 1

\* C2: also when two runs overlap, there is at most one row and at most one
\* notification batch for a property and a date.
C2_OverlapOneCheckAndBatch ==
    \A p \in PropertyIds, d \in Dates :
        /\ Cardinality(ChecksIn(rent_checks, p, d)) <= 1
        /\ Cardinality(LandlordMail(p, d)) <= 1
        /\ Cardinality(TenantMail(p, d)) <= 1

\* The properties a run with these arguments checks: those due on its date
\* that belong to the landlords it covers.
Processed(inv) ==
    { p \in PropertyIds :
        /\ is_rent_due(properties[p], inv.check_date)
        /\ properties[p].user_id \in
              (IF inv.entry = "all" THEN users_with_credentials ELSE {inv.user_id}) }

\* C3: a run invoked with the arguments of the run that returned before it
\* changes no row of the ledger, and when it returns the ledger holds
\* exactly one row for each property it processed.
C3_SecondRunLeavesLedger ==
    [][ (run[1].pc # "idle" /\ completed.last = Some(Invocation(run[1])))
        => /\ rent_checks' = rent_checks
           /\ run'[1].pc = "idle" =>
                \A p \in Processed(Invocation(run[1])) :
                    Cardinality(ChecksIn(rent_checks', p, run[1].check_date)) = 1
      ]_vars

\* A run that repeated the one before it has returned, and the ledger is not empty.
C3_Witness ==
    /\ completed.again
    /\ run[1].pc = "idle"
    /\ \E p \in Processed(completed.last[1]) :
          ChecksIn(rent_checks, p, completed.last[1].check_date) # {}

\* C4: with runs executed one at a time, a property gets at most one
\* landlord message and at most one tenant reminder for a date.
C4_OneBatchPerPropertyAndDate ==
    \A p \in PropertyIds, d \in Dates :
        /\ Cardinality(LandlordMail(p, d)) <= 1
        /\ Cardinality(TenantMail(p, d)) <= 1

\* A later run came upon a pair already notified, and the run has returned.
C4_Witness ==
    /\ run[1].pc = "idle"
    /\ \E pair \in skipped : /\ LandlordMail(pair[1], pair[2]) # {}
                             /\ TenantMail(pair[1], pair[2]) # {}

\* C5: the step of a run that finds a row for its property and date leaves
\* the ledger, the mail log, the dispatches and the aggregator calls as
\* they are, and the run is back in its loop with the same properties and
\* users still to check.
C5_ExistingCheckSkipped ==
    [][ \A r \in Runners :
          (run[r].pc = "lookup"
              /\ ChecksIn(rent_checks, run[r].property, run[r].check_date) # {})
          => /\ UNCHANGED << rent_checks, email_logs, outbox, api_calls >>
             /\ run'[r].pc = "next"
             /\ run'[r].props = run[r].props
             /\ run'[r].users = run[r].users
      ]_vars

\* After a pair was skipped the run went on to look up another property.
C5_Witness ==
    \E pair \in skipped :
        /\ run[1].pc = "lookup"
        /\ run[1].check_date = pair[2]
        /\ run[1].property # pair[1]
        /\ ChecksIn(rent_checks, pair[1], pair[2]) # {}

\* C6: nothing is fetched, written or dispatched for a property on a date
\* that is not a due date of it.
C6_NotDueNoEffect ==
    /\ \A i \in 1..Len(rent_checks) :
          is_rent_due(properties[rent_checks[i].property_id], rent_checks[i].check_date)
    /\ \A i \in 1..Len(api_calls) :
          is_rent_due(properties[api_calls[i].property_id], api_calls[i].start)
    /\ \A i \in 1..Len(outbox) :
          is_rent_due(properties[outbox[i].property_id], outbox[i].check_date)

\* A run has passed over a property that was not due on its date, after
\* checking another one.
C6_Witness ==
    /\ run[1].pc = "next"
    /\ run[1].property \in PropertyIds
    /\ ~is_rent_due(properties[run[1].property], run[1].check_date)
    /\ ChecksIn(rent_checks, run[1].property, run[1].check_date) = {}
    /\ rent_checks # <<>>

\* The landlord message the decision table gives for a row.
ExpectedLandlordType(row) ==
    CASE row.payment_found /\ row.amount_matches -> "rent_received"
      [] row.payment_found /\ ~row.amount_matches -> "rent_amount_mismatch"
      [] OTHER -> "rent_missed"

\* C7: once the landlord step of send_notifications has run for a row,
\* exactly one landlord message was dispatched for it, of the kind the row
\* determines; a mismatch message carries the expected and the actual amount.
C7_OneLandlordMessageOfRowKind ==
    \A i \in 1..Len(rent_checks) :
        LET row == rent_checks[i]
            mail == LandlordMail(row.property_id, row.check_date)
        IN IF Notifying(row, {"landlord"})
           THEN mail = {}
           ELSE /\ Cardinality(mail) = 1
                /\ \A m \in mail :
                      /\ outbox[m].email_type = ExpectedLandlordType(row)
                      /\ outbox[m].email_type = "rent_amount_mismatch" =>
                            /\ outbox[m].amounts.expected =
                                  Some(properties[row.property_id].rent_amount)
                            /\ outbox[m].amounts.actual = row.payment_amount

\* A payment of another amount was found and the mismatch message dispatched.
C7_Witness ==
    \E i \in 1..Len(rent_checks) :
        /\ rent_checks[i].payment_found
        /\ ~rent_checks[i].amount_matches
        /\ \E m \in LandlordMail(rent_checks[i].property_id, rent_checks[i].check_date) :
              outbox[m].email_type = "rent_amount_mismatch"

\* C8: once send_notifications has dispatched for a row, a tenant reminder
\* was dispatched for it exactly when no payment was found and the property
\* has send_tenant_reminder set; none is ever dispatched when one was found.
C8_TenantReminderIffMissedAndEnabled ==
    \A i \in 1..Len(rent_checks) :
        LET row == rent_checks[i]
            mail == TenantMail(row.property_id, row.check_date)
        IN /\ row.payment_found => mail = {}
           /\ ~Notifying(row, {"landlord", "tenant"}) =>
                 Cardinality(mail) =
                    IF ~row.payment_found
                          /\ properties[row.property_id].send_tenant_reminder
                    THEN 1 ELSE 0

\* A missed payment with the reminder dispatched, and a found payment of a
\* property with the reminder enabled.
C8_Witness ==
    /\ \E i \in 1..Len(rent_checks) :
          /\ ~rent_checks[i].payment_found
          /\ TenantMail(rent_checks[i].property_id, rent_checks[i].check_date) # {}
    /\ \E i \in 1..Len(rent_checks) :
          /\ rent_checks[i].payment_found
          /\ properties[rent_checks[i].property_id].send_tenant_reminder
          /\ ~Notifying(rent_checks[i], {"landlord", "tenant", "commit"})

\* C9: once send_notifications has returned for a row, its notification_sent
\* is true, whatever the mail dispatch returned.
C9_NotificationSentAfterNotify ==
    \A i \in 1..Len(rent_checks) :
        ~Notifying(rent_checks[i], {"landlord", "tenant", "commit"})
            => rent_checks[i].notification_sent

\* The landlord message of a row failed and the row is marked as notified.
C9_Witness ==
    \E i \in 1..Len(rent_checks) :
        /\ rent_checks[i].notification_sent
        /\ ~Notifying(rent_checks[i], {"landlord", "tenant", "commit"})
        /\ \E m \in LandlordMail(rent_checks[i].property_id, rent_checks[i].check_date) :
              ~outbox[m].ok

\* C10: a row has tenant_notification_sent only if no payment was found and
\* its property has send_tenant_reminder set.
C10_TenantFlagOnlyMissedAndEnabled ==
    \A i \in 1..Len(rent_checks) :
        rent_checks[i].tenant_notification_sent =>
            /\ ~rent_checks[i].payment_found
            /\ properties[rent_checks[i].property_id].send_tenant_reminder

\* A row has tenant_notification_sent.
C10_Witness ==
    \E i \in 1..Len(rent_checks) : rent_checks[i].tenant_notification_sent

\* The loop of check_user_rent_payments has just found rent due for
\* property p on the run's date, or has just passed over p as not due.
FoundDue(p) == run[1].pc = "lookup" /\ run[1].property = p

PassedOver(p) ==
    /\ run[1].pc = "next"
    /\ run[1].property = p
    /\ ChecksIn(rent_checks, p, run[1].check_date) = {}

\* C11: a Fortnightly property is found due exactly on the dates whose
\* weekday is its rent_due_day_of_week and whose day of the month is
\* divisible by 14, which only the 14th and the 28th are.
C11_FortnightlyDueRule ==
    \A p \in PropertyIds :
        properties[p].rent_frequency = "Fortnightly" =>
            LET d == run[1].check_date
                rule == /\ properties[p].rent_due_day_of_week = Some(weekday(d))
                        /\ day(d) % 14 = 0
            IN /\ FoundDue(p) => rule /\ day(d) \in {14, 28}
               /\ PassedOver(p) => ~rule

\* A Fortnightly property found due on a 28th, three weeks after the 7th
\* on which, with the same weekday, it was not due.
C11_Witness ==
    /\ properties[1].rent_frequency = "Fortnightly"
    /\ FoundDue(1)
    /\ day(run[1].check_date) = 28
    /\ ~is_rent_due(properties[1], run[1].check_date - 21)

\* C12: a Monthly property is found due exactly on the dates whose day of
\* the month is its rent_due_day, so never in a month shorter than that.
C12_MonthlyDueRuleNoClamping ==
    \A p \in PropertyIds :
        properties[p].rent_frequency = "Monthly" =>
            LET d == run[1].check_date
                rule == properties[p].rent_due_day = Some(day(d))
            IN /\ FoundDue(p) =>
                    rule /\ properties[p].rent_due_day[1] <= month_length(d)
               /\ PassedOver(p) => ~rule

\* A Monthly property with due day 29 passed over on the last day of a
\* February of 28 days.
C12_Witness ==
    /\ properties[1].rent_due_day = Some(29)
    /\ PassedOver(1)
    /\ month_length(run[1].check_date) = 28
    /\ day(run[1].check_date) = 28

\* C13: a Weekly property is found due exactly on the dates whose weekday
\* (0 = Monday .. 6 = Sunday) is its rent_due_day_of_week: on one date of
\* any seven in a row.
C13_WeeklyDueRule ==
    \A p \in PropertyIds :
        properties[p].rent_frequency = "Weekly" =>
            LET d == run[1].check_date
                rule == properties[p].rent_due_day_of_week = Some(d % 7)
            IN /\ FoundDue(p) => rule
               /\ PassedOver(p) => ~rule
               /\ (FoundDue(p) \/ PassedOver(p)) =>
                     Cardinality({ k \in 0..6 : is_rent_due(properties[p], d + k) }) = 1

\* A Weekly property due on Mondays found due on a Monday, here 2024-01-08.
C13_Witness ==
    /\ properties[1].rent_frequency = "Weekly"
    /\ properties[1].rent_due_day_of_week = Some(0)
    /\ FoundDue(1)
    /\ run[1].check_date = 7

\* Letters that differ at most in case.
SameLetter(a, b) == lower_char(a) = lower_char(b)

\* The keyword occurs in the description, case ignored.
HoldsKeyword(description, keyword) ==
    \E i \in 0..(Len(description) - Len(keyword)) :
        \A j \in 1..Len(keyword) : SameLetter(description[i + j], keyword[j])

\* The positions of the transactions whose description holds the keyword.
Holding(transactions, keyword) ==
    { i \in 1..Len(transactions) : HoldsKeyword(transactions[i].description, keyword) }

\* The least of a non-empty set of positions.
First(S) == CHOOSE i \in S : \A j \in S : i <= j

\* C14: for the transactions a run has fetched, find_rent_payment returns
\* the first one, in the order fetched, whose description holds the
\* property's keyword with case ignored, and None when none holds it.
C14_FirstKeywordMatch ==
    \A r \in Runners :
        run[r].pc = "insert" =>
            LET t == run[r].transactions
                property == properties[run[r].property]
                holding == Holding(t, property.bank_statement_keyword)
            IN find_rent_payment(t, property) =
                  IF holding = {} THEN None ELSE Some(t[First(holding)])

\* "Groceries" then "weekly rent payment" were fetched for keyword "RENT",
\* and the second is returned.
C14_Witness ==
    /\ run[1].pc = "insert"
    /\ Len(run[1].transactions) = 2
    /\ run[1].transactions[1].description = Desc_other
    /\ run[1].transactions[2].description = Desc_rent
    /\ properties[run[1].property].bank_statement_keyword = RentKeyword
    /\ find_rent_payment(run[1].transactions, properties[run[1].property])
          = Some(run[1].transactions[2])

\* C15: when fetched transactions hold the keyword, the row inserted takes
\* payment_amount and amount_matches from the first of them, whatever the
\* amounts of the later ones.
C15_FirstMatchDecidesAmounts ==
    [][ \A r \in Runners :
          (run[r].pc = "insert" /\ run'[r].pc # "insert") =>
            LET t == run[r].transactions
                property == properties[run[r].property]
                holding == Holding(t, property.bank_statement_keyword)
                row == rent_checks'[Len(rent_checks')]
            IN holding # {} =>
                  /\ row.payment_amount = Some(abs(t[First(holding)].amount))
                  /\ row.amount_matches =
                        (abs(t[First(holding)].amount) = property.rent_amount)
      ]_vars

\* The row of a check whose first keyword transaction was of 750.00 and
\* whose second was of the expected 800.00.
C15_Witness ==
    \E i \in 1..Len(rent_checks) :
        /\ rent_checks[i].payment_amount = Some(75000)
        /\ ~rent_checks[i].amount_matches
        /\ properties[rent_checks[i].property_id].rent_amount = 80000

\* What the step of a run that inserts a row does, as the pair of the
\* transaction kept (None or one transaction) and the row inserted.
Inserted(r) ==
    [ match |-> LET t == run[r].transactions
                    holding == Holding(t, properties[run[r].property].bank_statement_keyword)
                IN IF holding = {} THEN None ELSE Some(t[First(holding)]),
      row   |-> rent_checks'[Len(rent_checks')] ]

\* C16: a row is inserted with payment_found telling whether a transaction
\* was kept, payment_keyword_match the same, payment_amount NULL when none
\* was kept and its absolute amount otherwise, and amount_matches false
\* when none was kept; and so every row of the ledger stays.
C16_RowPopulatedFromMatch ==
    [][ /\ \A r \in Runners :
              (run[r].pc = "insert" /\ run'[r].pc # "insert") =>
                 LET match == Inserted(r).match
                     row == Inserted(r).row
                 IN /\ row.payment_found = (match # None)
                    /\ match # None =>
                          row.payment_amount =
                             Some(IF match[1].amount < 0 THEN -match[1].amount
                                  ELSE match[1].amount)
        /\ \A i \in 1..Len(rent_checks') :
              /\ rent_checks'[i].payment_keyword_match = rent_checks'[i].payment_found
              /\ (rent_checks'[i].payment_amount = None) = ~rent_checks'[i].payment_found
              /\ ~rent_checks'[i].payment_found => ~rent_checks'[i].amount_matches
      ]_vars

\* The ledger holds the row of a check that kept a transaction and the row
\* of one that kept none.
C16_Witness ==
    /\ \E i \in 1..Len(rent_checks) :
          /\ rent_checks[i].payment_found
          /\ rent_checks[i].payment_keyword_match
          /\ rent_checks[i].payment_amount # None
    /\ \E i \in 1..Len(rent_checks) :
          /\ ~rent_checks[i].payment_found
          /\ rent_checks[i].payment_amount = None
          /\ ~rent_checks[i].amount_matches

\* C17: the row inserted for a kept transaction has amount_matches exactly
\* when the amount or its negation is the property's rent_amount.
C17_AmountComparedByAbsoluteValue ==
    [][ \A r \in Runners :
          (run[r].pc = "insert" /\ run'[r].pc # "insert") =>
             LET match == Inserted(r).match
                 rent_amount == properties[run[r].property].rent_amount
             IN match # None =>
                   Inserted(r).row.amount_matches =
                      (match[1].amount = rent_amount \/ match[1].amount = -rent_amount)
      ]_vars

\* A run is at the insert with a kept transaction of -800.00 for a rent of
\* 800.00, for which it builds a row with amount_matches.
C17_Witness ==
    /\ run[1].pc = "insert"
    /\ LET property == properties[run[1].property]
           rent_payment == find_rent_payment(run[1].transactions, property)
       IN /\ rent_payment # None
          /\ rent_payment[1].amount = -80000
          /\ property.rent_amount = 80000
          /\ RentCheck(1, property.id, run[1].check_date, rent_payment,
                       property.rent_amount).amount_matches

\* The invocation during which e was raised has returned, and none was
\* started since.
ReturnedFrom(e) == run[1].pc = "idle" /\ runs_started = e.run

\* C18: when the run in which an exception was raised for one property has
\* returned, every other property the run covers that was due on its date
\* has its row and its landlord message.
C18_ExceptionIsolated ==
    \A e \in raised :
        ReturnedFrom(e) =>
            \A p \in Processed(e.inv) \ {e.property_id} :
                /\ ChecksIn(rent_checks, p, e.inv.check_date) # {}
                /\ LandlordMail(p, e.inv.check_date) # {}

\* C19: after the commit of a property's row has raised, the run leaves
\* no row and dispatches no message for that property and date, and when it
\* has returned every other due property it covers has its row.
C19_WriteFailureAbortsOneAgreement ==
    \A e \in raised :
        (e.kind = "commit" /\ runs_started = e.run) =>
            /\ ChecksIn(rent_checks, e.property_id, e.inv.check_date) = {}
            /\ LandlordMail(e.property_id, e.inv.check_date) = {}
            /\ TenantMail(e.property_id, e.inv.check_date) = {}
            /\ run[1].pc = "idle" =>
                  \A p \in Processed(e.inv) \ {e.property_id} :
                      Cardinality(ChecksIn(rent_checks, p, e.inv.check_date)) = 1

\* C20: no row is written and no message dispatched for a property of a
\* landlord without credentials, whichever way the run was entered.
C20_NoCredentialLandlordSkipped ==
    \A p \in PropertyIds :
        properties[p].user_id \notin users_with_credentials =>
            /\ \A i \in 1..Len(rent_checks) : rent_checks[i].property_id # p
            /\ \A i \in 1..Len(outbox) : outbox[i].property_id # p

\* The aggregator gave no usable answer: the call raised, or the status is
\* not 200.
Failed(response) == response.raises \/ response.status_code # 200

\* C21: get_bank_transactions never raises to its caller. Whatever the
\* aggregator did, check_property_rent_payment goes on to build the row and
\* no exception leaves the fetch; after an answer that is not 200, after an
\* exception, and for a landlord without credentials the list it works on
\* is empty.
C21_FetchNeverRaises ==
    [][\A r \in Runners :
          (run[r].pc = "fetch" /\ run'[r].pc # "fetch") =>
             /\ run'[r].pc = "insert"
             /\ raised' = raised
             /\ IF Len(api_calls') > Len(api_calls)
                THEN Failed(api_calls'[Len(api_calls')].response)
                        => run'[r].transactions = <<>>
                ELSE run'[r].transactions = <<>>]_vars

\* The aggregator failed with a body that carries items, and the check of
\* the property goes on with the empty list.
C21_Witness ==
    /\ run[1].pc = "insert"
    /\ run[1].transactions = <<>>
    /\ api_calls # <<>>
    /\ LET call == api_calls[Len(api_calls)] IN
          /\ call.property_id = run[1].property
          /\ Failed(call.response)
          /\ call.response.items # <<>>

\* C22: when the aggregator gave no usable answer during the check of a due
\* property without a row for the date, the check still adds one row, with
\* payment_found false; the landlord is sent the rent_missed message, and
\* the tenant the reminder exactly when the property has it enabled.
C22_FetchFailureRecordedAsMissed ==
    \A c \in 1..Len(api_calls) :
        LET p == api_calls[c].property_id
            d == api_calls[c].start
            rows == ChecksIn(rent_checks, p, d)
        IN Failed(api_calls[c].response) =>
              IF \E r \in Runners : run[r].pc = "insert" /\ run[r].property = p
              THEN rows = {}
              ELSE /\ Cardinality(rows) = 1
                   /\ \A i \in rows :
                         /\ ~rent_checks[i].payment_found
                         /\ rent_checks[i].payment_amount = None
                         /\ ~Notifying(rent_checks[i], {"landlord"}) =>
                               /\ Cardinality(LandlordMail(p, d)) = 1
                               /\ \A m \in LandlordMail(p, d) :
                                     outbox[m].email_type = "rent_missed"
                         /\ ~Notifying(rent_checks[i], {"landlord", "tenant"}) =>
                               Cardinality(TenantMail(p, d)) =
                                  IF properties[p].send_tenant_reminder THEN 1 ELSE 0

\* The aggregator could not be reached for a property with the reminder
\* enabled: the row says no payment was found and both messages went out.
C22_Witness ==
    \E c \in 1..Len(api_calls) :
        LET p == api_calls[c].property_id
            d == api_calls[c].start
        IN /\ api_calls[c].response.raises
           /\ properties[p].send_tenant_reminder
           /\ \E i \in ChecksIn(rent_checks, p, d) : ~rent_checks[i].payment_found
           /\ LandlordMail(p, d) # {}
           /\ TenantMail(p, d) # {}

C30_OrderIndependent ==
    (run[1].pc = "idle" /\ runs_started = 1) =>
        \A p \in PropertyIds :
            properties[p].user_id \in users_with_credentials =>
                LET own == { e \in raised : e.property_id = p } IN
                /\ Cardinality(ChecksIn(rent_checks, p, today - 1)) =
                      IF own = {} THEN 1 ELSE 0
                /\ Cardinality(LandlordMail(p, today - 1)) =
                      IF own = {} THEN 1 ELSE 0

\* C28: a landlord never has more than one akahu_credentials row, and once
\* the landlord has posted tokens to akahu_setup the row holds the tokens
\* posted last.
C28_OneCredentialLatestTokens ==
    \A u \in Users :
        LET mine == { i \in 1..Len(akahu_credentials) :
                         akahu_credentials[i].user_id = u }
        IN /\ Cardinality(mine) <= 1
           /\ submitted[u] # None =>
                 /\ Cardinality(mine) = 1
                 /\ \A i \in mine :
                       /\ akahu_credentials[i].app_token = submitted[u][1].app_token
                       /\ akahu_credentials[i].user_token = submitted[u][1].user_token

\* C29: after any sequence of add_property and edit_property requests every
\* property has exactly one due-day column set: rent_due_day_of_week for
\* Weekly and Fortnightly, rent_due_day for Monthly.
C29_OneDueDayField ==
    \A p \in DOMAIN properties :
        IF properties[p].rent_frequency \in {"Weekly", "Fortnightly"}
        THEN /\ properties[p].rent_due_day_of_week # None
             /\ properties[p].rent_due_day = None
        ELSE /\ properties[p].rent_frequency = "Monthly"
             /\ properties[p].rent_due_day # None
             /\ properties[p].rent_due_day_of_week = None

\* Two properties were saved from forms that carry both selects: a Weekly
\* one that keeps the day of the week only, and a Monthly one that keeps
\* the day of the month only.
C29_Witness ==
    /\ DOMAIN properties = PropertyIds
    /\ properties[1].rent_frequency = "Weekly"
    /\ properties[1].rent_due_day_of_week = Some(0)
    /\ properties[1].rent_due_day = None
    /\ properties[2].rent_frequency = "Monthly"
    /\ properties[2].rent_due_day = Some(14)
    /\ properties[2].rent_due_day_of_week = None

\* The columns of a rent_checks row that are set when it is created.
Recorded(row) ==
    << row.property_id, row.check_date, row.payment_found, row.payment_amount,
       row.payment_keyword_match, row.amount_matches >>

\* C24: no step of a run and no request changes property_id, check_date,
\* payment_found, payment_amount, payment_keyword_match or amount_matches of
\* a row that stays in the ledger; its notification_sent and
\* tenant_notification_sent never go back from true to false.
C24_RowImmutableFlagsMonotone ==
    [][\A i \in 1..Len(rent_checks), j \in 1..Len(rent_checks') :
          rent_checks[i].id = rent_checks'[j].id =>
             /\ Recorded(rent_checks'[j]) = Recorded(rent_checks[i])
             /\ rent_checks[i].notification_sent => rent_checks'[j].notification_sent
             /\ rent_checks[i].tenant_notification_sent =>
                   rent_checks'[j].tenant_notification_sent]_vars

\* A payment of the full rent was recorded and notified, and the rent of
\* the property was edited afterwards: the row still says the amount
\* matches.
C24_Witness ==
    \E i \in 1..Len(rent_checks) :
        /\ rent_checks[i].notification_sent
        /\ rent_checks[i].amount_matches
        /\ rent_checks[i].payment_amount = Some(80000)
        /\ rent_checks[i].property_id \in DOMAIN properties
        /\ properties[rent_checks[i].property_id].rent_amount = 75000

C26_ScheduledRunChecksYesterday ==
    [][\A r \in Runners :
          run[r].entry = "all" =>
             /\ Len(rent_checks') > Len(rent_checks) =>
                   /\ run[r].pc = "insert"
                   /\ rent_checks'[Len(rent_checks')].check_date = today - 1
                   /\ rent_checks'[Len(rent_checks')].rent_due_date = today - 1
             /\ Len(api_calls') > Len(api_calls) =>
                   /\ api_calls'[Len(api_calls')].start = today - 1
                   /\ api_calls'[Len(api_calls')].end = today]_vars

\* The scheduled run of the second day has added a row for the first day,
\* beside a row for the day before it.
C26_Witness ==
    /\ today = FirstToday + 1
    /\ run[1].entry = "all"
    /\ run[1].pc = "landlord"
    /\ row_of(rent_checks, run[1].rent_check).check_date = FirstToday
    /\ \E i \in 1..Len(rent_checks) : rent_checks[i].check_date = FirstToday - 1

\* C27: every message handed to send_email adds exactly one email_logs row,
\* for the same recipient and type, whose sent_successfully is the boolean
\* returned and which carries an error message when that is false.
C27_EveryDispatchLogged ==
    /\ Len(email_logs) = Len(outbox)
    /\ \A i \in 1..Len(outbox) :
          i <= Len(email_logs) =>
             /\ email_logs[i].recipient_email = outbox[i].recipient_email
             /\ email_logs[i].email_type = outbox[i].email_type
             /\ email_logs[i].sent_successfully = outbox[i].ok
             /\ ~outbox[i].ok => email_logs[i].error_message # None

DailyCheckEnded(d) ==
    LET inv == [entry |-> "all", user_id |-> 0, check_date |-> d] IN
    /\ run[1].pc = "idle"
    /\ \/ completed.last = Some(inv)
       \/ /\ completed.error # None
          /\ completed.error[1] = [inv |-> inv, caught |-> TRUE]

\* No fetch, no commit and no dispatch has failed.
NothingFailed ==
    /\ \A i \in 1..Len(api_calls) :
          "response" \in DOMAIN api_calls[i] => ~Failed(api_calls[i].response)
    /\ raised = {}
    /\ \A i \in 1..Len(outbox) : outbox[i].ok

\* C32: once the scheduler's call of run_daily_rent_check has ended with no
\* fetch, persistence or dispatch failure, every property that was due on
\* the date checked and whose landlord has credentials has a rent_checks row
\* for that date.
C32_ScheduledRunRecordsEveryDue ==
    \A d \in Dates :
        DailyCheckEnded(d) /\ NothingFailed =>
            \A p \in DOMAIN properties :
                /\ is_rent_due(properties[p], d)
                /\ properties[p].user_id \in users_with_credentials
                => ChecksIn(rent_checks, p, d) # {}

\* The row agrees with the dispatch m: same property, same date, and the
\* outcome that the kind of message tells.
Agrees(m, row) ==
    /\ row.property_id = m.property_id
    /\ row.check_date = m.check_date
    /\ CASE m.email_type = "rent_received" -> row.payment_found /\ row.amount_matches
         [] m.email_type = "rent_amount_mismatch" ->
               row.payment_found /\ ~row.amount_matches
         [] OTHER -> ~row.payment_found

\* The ledger rows holds a row that agrees with the dispatch m.
HasRecord(m, rows) == \E i \in 1..Len(rows) : Agrees(m, rows[i])

\* A step that dispatches finds the row of its dispatch already in the
\* ledger.
WriteBeforeDispatch ==
    Len(outbox') > Len(outbox) => HasRecord(outbox'[Len(outbox')], rent_checks)

\* C33 as stated: the ledger write precedes dispatch, and in every reachable
\* state each dispatched rent notification has a row for its property and
\* date whose payment_found and amount_matches agree with its kind.
C33_EveryDispatchHasRecord ==
    /\ [][WriteBeforeDispatch]_vars
    /\ [](\A m \in 1..Len(outbox) : HasRecord(outbox[m], rent_checks))

\* The row of a dispatch stays in the ledger in every step but the
\* delete_property of its property.
RecordKept ==
    \A m \in 1..Len(outbox) :
        HasRecord(outbox[m], rent_checks) =>
            \/ HasRecord(outbox[m], rent_checks')
            \/ /\ outbox[m].property_id \in DOMAIN properties
               /\ outbox[m].property_id \notin DOMAIN properties'

\* C33, amended: the ledger write precedes dispatch, and the row of a
\* dispatched rent notification, whose payment_found and amount_matches
\* agree with the kind of the notification, stays in the ledger until
\* delete_property deletes the property; the rows of the property go with
\* it and the notifications sent remain.
C33_DispatchHasRecordUntilDeleted ==
    [][WriteBeforeDispatch /\ RecordKept]_vars

\* Both messages of a missed rent were dispatched for a property that
\* exists, and the row of the check says that no payment was found.
C33_Witness ==
    \E p \in DOMAIN properties, d \in Dates :
        /\ \E m \in LandlordMail(p, d) : outbox[m].email_type = "rent_missed"
        /\ TenantMail(p, d) # {}
        /\ \E i \in ChecksIn(rent_checks, p, d) : ~rent_checks[i].payment_found

\* C34: no entity crosses landlords in the engine: every GET /transactions
\* made with a landlord's tokens is made for a property of that landlord,
\* every landlord message for a property is addressed to the email of the
\* property's owner, and every tenant reminder to the tenant email of the
\* property.
C34_NothingCrossesLandlords ==
    /\ \A i \in 1..Len(api_calls) :
          properties[api_calls[i].property_id].user_id = api_calls[i].user_id
    /\ \A m \in 1..Len(outbox) :
          LET property == properties[outbox[m].property_id] IN
          IF outbox[m].email_type = "tenant_reminder"
          THEN outbox[m].recipient_email = property.tenant_email
          ELSE outbox[m].recipient_email = UserEmail(property.user_id)

\* Two landlords were checked in one run: transactions were fetched with
\* the tokens of each, each got a landlord message, and a tenant was
\* reminded.
C34_Witness ==
    /\ \A u \in Users : \E i \in 1..Len(api_calls) : api_calls[i].user_id = u
    /\ \A u \in Users :
          \E m \in 1..Len(outbox) : outbox[m].recipient_email = UserEmail(u)
    /\ \E m \in 1..Len(outbox) : outbox[m].email_type = "tenant_reminder"

\* A step gives landlord u a property they did not have.
Gains(u) ==
    \E p \in DOMAIN properties' :
        /\ properties'[p].user_id = u
        /\ p \notin DOMAIN properties \/ properties[p].user_id # u

\* C36: no step creates a property for a landlord who has no active
\* subscription and already owns one, and with requests handled one at a
\* time a landlord whose subscription was never active owns at most one
\* property.
C36_UnsubscribedOwnsAtMostOne ==
    /\ [][\A u \in Users :
            Gains(u) => subscription_active(u) \/ properties_of(u) = {}]_vars
    /\ [](\A u \in Users \ activated : Cardinality(properties_of(u)) <= 1)

\* The second landlord, who never subscribed, owns one property while the
\* table has room for another; the subscription of the first has ended.
C36_Witness ==
    /\ 2 \notin activated
    /\ Cardinality(properties_of(2)) = 1
    /\ next_property_id \in PropertyIds
    /\ ~subscription_active(1)

\* The row of password_reset_tokens a password change was made with.
TokenRow(reset) ==
    password_reset_tokens[CHOOSE i \in 1..Len(password_reset_tokens) :
                             password_reset_tokens[i].id = reset.id]

\* C35: a password reset token changes a password at most once: no two
\* password changes were made with the same token, the row of every change
\* is marked used, and no change was made after the expires_at of its row,
\* whatever forgot_password and reset_password requests came in sequence.
C35_ResetTokenUsedOnce ==
    /\ \A i, j \in 1..Len(resets) : resets[i].token = resets[j].token => i = j
    /\ \A i \in 1..Len(resets) :
          /\ TokenRow(resets[i]).used
          /\ TokenRow(resets[i]).token = resets[i].token
          /\ resets[i].at <= TokenRow(resets[i]).expires_at

\* One token changed a password and is marked used, and another, never
\* used, is past its expiry.
C35_Witness ==
    /\ Len(resets) = 1
    /\ TokenRow(resets[1]).used
    /\ users[resets[1].user_id].password_hash # generate_password_hash("password_0")
    /\ \E i \in 1..Len(password_reset_tokens) :
          /\ ~password_reset_tokens[i].used
          /\ password_reset_tokens[i].expires_at < utcnow
====
